---------------------------- MODULE Spec2Model ----------------------------
(***************************************************************************)
(* Vortex-lattice solvers of aviansoftwareminimumviableproduct:            *)
(*   - UnsteadyRingVortexLatticeMethodSolver        ("unsteady")           *)
(*   - the legacy unsteady ring solver              ("legacy_unsteady")    *)
(*   - SteadyRingVortexLatticeMethodSolver          ("steady_ring")        *)
(*   - SteadyHorseshoeVortexLatticeMethodSolver     ("steady_horseshoe")   *)
(*                                                                         *)
(* A run is modelled as a state machine whose program counter pc is the    *)
(* next call made by run().  Indices are 0-based as in the source: panel   *)
(* grids are functions over 0..n-1, ndarrays that grow (the wake grids)    *)
(* are records [shape, data] with data a sequence of rows.  Vectors are    *)
(* integer triples; lengths are in quarter-chord units so that every       *)
(* quantity the solvers compute stays an integer.                          *)
(***************************************************************************)
EXTENDS Integers, Sequences, FiniteSets, TLC

VARIABLES
    solver,             \* which solver class runs
    wing_shapes,        \* per wing: number of chordwise / spanwise panels
    num_steps,          \* movement.num_steps (1 for the steady solvers)
    geometry,           \* which panel geometry the meshing collaborator supplied
    freestream,         \* operating point: freestream velocity, geometry axes
    heave,              \* movement: plunge of the airplane per pose
    references,         \* the airplane's s_ref, b_ref and c_ref
    keywords,           \* the keyword arguments run() is called with
    pc,                 \* position of run()
    step_iter,          \* the loop variable of "for step in range(num_steps)"
    current_step,       \* self.current_step
    airplanes,          \* movement.airplanes (steady: the one airplane)
    current_wing_wing_influences,
    current_freestream_wing_influences,
    current_wake_wing_influences,
    current_vortex_strengths,
    bound_leg_strengths, \* the effective leg circulations of the last force pass
    leg_forces,         \* per leg of the last force pass: where the velocity was taken, the force
    total_near_field_force_wind_axes,
    total_near_field_moment_wind_axes,
    coefficients,       \* self.CDi, CY, CL, Cl, Cm, Cn
    printed,            \* whether run() has written to the console
    streamline_points,  \* self.streamline_points of the legacy solver
    after_run,          \* what the owner did once run() had returned, or None
    error               \* the exception that ended the run, or None

config == <<solver, wing_shapes, num_steps, geometry, freestream, heave, references, keywords>>
influences == <<current_wing_wing_influences, current_freestream_wing_influences,
                current_wake_wing_influences>>
(* what the force pass leaves behind *)
force_results == <<bound_leg_strengths, leg_forces, total_near_field_force_wind_axes,
                   total_near_field_moment_wind_axes, coefficients>>
vars == <<solver, wing_shapes, num_steps, geometry, freestream, heave, references, keywords,
          pc, step_iter, current_step, airplanes, current_wing_wing_influences,
          current_freestream_wing_influences, current_wake_wing_influences,
          current_vortex_strengths, bound_leg_strengths, leg_forces,
          total_near_field_force_wind_axes, total_near_field_moment_wind_axes, coefficients,
          printed, streamline_points, after_run, error>>

(* Python's None; an optional number x is held as <<x>> *)
None == <<>>
Some(x) == <<x>>
Val(optional) == optional[1]

(* def run(self), def run(self, verbose=True),                               *)
(* def run(self, verbose=True, prescribed_wake=True): the parameters of the  *)
(* solver's run(), and their values as the call binds them                   *)
RunParameters ==
    CASE solver = "legacy_unsteady" -> {"verbose", "prescribed_wake"}
      [] solver = "unsteady" -> {"verbose"}
      [] OTHER -> {}

(* a keyword the call passes that run() does not have: Python's TypeError *)
UnexpectedKeyword ==
    \E name \in DOMAIN keywords : keywords[name] # None /\ name \notin RunParameters

verbose == IF keywords.verbose = None THEN TRUE ELSE Val(keywords.verbose)
prescribed_wake ==
    IF keywords.prescribed_wake = None THEN TRUE ELSE Val(keywords.prescribed_wake)

(* whether the print statements of run() write: the steady solvers print      *)
(* unconditionally, the unsteady ones under "if verbose:"                    *)
Prints == IF solver \in {"unsteady", "legacy_unsteady"} THEN verbose ELSE TRUE

-----------------------------------------------------------------------------
(* Bounds of the model *)
MaxWings == 2
MaxChordwise == 2
MaxSpanwise == 2
MaxSteps == 3

(* movement.delta_time, in model time units (a quarter of it is one unit) *)
DeltaTime == 4

SolverKinds == {"unsteady", "legacy_unsteady", "steady_ring", "steady_horseshoe"}
UnsteadyKinds == {"unsteady", "legacy_unsteady"}
RingKinds == {"unsteady", "legacy_unsteady", "steady_ring"}
Geometries == {"regular", "coincident"}
Freestreams == {<<0, 0, 0>>, <<2, 0, 1>>}
Heaves == {0, 4}

(* operating_point.density *)
Density == 2

(* Airplane.s_ref, b_ref, c_ref as the caller may give them: those of the    *)
(* main wing, or a zero reference area                                       *)
References == {[s_ref |-> 16, b_ref |-> 8, c_ref |-> 4], [s_ref |-> 0, b_ref |-> 8, c_ref |-> 4]}

(* the calls of run() tried: without keywords, run(verbose=False),           *)
(* run(prescribed_wake=False)                                                *)
KeywordChoices ==
    {[verbose |-> None, prescribed_wake |-> None],
     [verbose |-> Some(FALSE), prescribed_wake |-> None],
     [verbose |-> None, prescribed_wake |-> Some(FALSE)]}

-----------------------------------------------------------------------------
(* numpy helpers *)

VAdd(a, b) == <<a[1] + b[1], a[2] + b[2], a[3] + b[3]>>
VSub(a, b) == <<a[1] - b[1], a[2] - b[2], a[3] - b[3]>>
VScale(k, a) == <<k * a[1], k * a[2], k * a[3]>>
VDivide(a, k) == <<a[1] \div k, a[2] \div k, a[3] \div k>>
Dot(a, b) == a[1] * b[1] + a[2] * b[2] + a[3] * b[3]
Cross(a, b) ==
    <<a[2] * b[3] - a[3] * b[2], a[3] * b[1] - a[1] * b[3], a[1] * b[2] - a[2] * b[1]>>
Zeros3 == <<0, 0, 0>>

RECURSIVE SumTo(_, _)
(* sum of f[0] .. f[n-1] *)
SumTo(f, n) == IF n = 0 THEN 0 ELSE f[n - 1] + SumTo(f, n - 1)

(* np.zeros(n), np.zeros((n, n)) *)
ZerosVector(n) == [i \in 0..(n - 1) |-> 0]
ZerosMatrix(n) == [i \in 0..(n - 1) |-> [j \in 0..(n - 1) |-> 0]]

(* an ndarray of rows: shape = <<rows, columns>> *)
EmptyGrid(cols) == [shape |-> <<0, cols>>, data |-> <<>>]
(* np.vstack((top, bottom)) *)
VStack(top, bottom) ==
    [shape |-> <<top.shape[1] + bottom.shape[1], top.shape[2]>>,
     data |-> top.data \o bottom.data]
RowGrid(row, cols) == [shape |-> <<1, cols>>, data |-> <<row>>]
At(grid, i, j) == grid.data[i + 1][j]

-----------------------------------------------------------------------------
(* Airplane.num_panels and the order of np.ravel over the wings *)

NumWings == Len(wing_shapes)
WingPanels(w) == wing_shapes[w].num_chordwise_panels * wing_shapes[w].num_spanwise_panels

RECURSIVE PanelsBefore(_)
PanelsBefore(w) == IF w = 1 THEN 0 ELSE PanelsBefore(w - 1) + WingPanels(w - 1)

NumPanels == PanelsBefore(NumWings) + WingPanels(NumWings)

(* position of panel (c, s) in np.ravel(wing.panels) *)
RavelIndex(w, c, s) == c * wing_shapes[w].num_spanwise_panels + s
(* position of the panel among all panels of the airplane *)
GlobalIndex(w, c, s) == PanelsBefore(w) + RavelIndex(w, c, s)

PanelIds == {<<w, c, s>> \in (1..NumWings) \X (0..(MaxChordwise - 1)) \X (0..(MaxSpanwise - 1)) :
                /\ c < wing_shapes[w].num_chordwise_panels
                /\ s < wing_shapes[w].num_spanwise_panels}

-----------------------------------------------------------------------------
(* What the meshing and movement collaborators supply: a planar wing of     *)
(* rectangular panels, one chord = 4 units, wing w lifted by 16 (w - 1),    *)
(* the whole airplane plunging by heave per pose.                           *)

PoseHeight(pose, w) == 16 * (w - 1) + heave * pose

PanelPoint(pose, w, c, s, point_name) ==
    LET z == PoseHeight(pose, w) IN
    CASE point_name = "front_left_vertex" -> <<4 * c, 4 * s, z>>
      [] point_name = "front_right_vertex" -> <<4 * c, 4 * (s + 1), z>>
      [] point_name = "back_left_vertex" -> <<4 * (c + 1), 4 * s, z>>
      [] point_name = "back_right_vertex" -> <<4 * (c + 1), 4 * (s + 1), z>>
      [] point_name = "front_left_vortex_vertex" -> <<4 * c + 1, 4 * s, z>>
      [] point_name = "front_right_vortex_vertex" -> <<4 * c + 1, 4 * (s + 1), z>>
      [] point_name = "collocation_point" -> <<4 * c + 3, 4 * s + 2, z>>

NormalDirection(w, c, s) == <<1, 0, 1 + c>>
IsLeadingEdge(w, c) == c = 0
IsTrailingEdge(w, c) == c + 1 = wing_shapes[w].num_chordwise_panels

(* Panel.calculate_normalized_induced_velocity(collocation point) dotted    *)
(* with the collocation panel's normal: the influence of the vortex of      *)
(* panel j (airplane-wide position gj) on panel i (position gi).            *)
(* "regular": a panel is influenced by its own vortex and, every second    *)
(* panel, by the vortex of the panel before it; "coincident": all panels    *)
(* coincide, so every vortex influences every panel alike.                  *)
NormalInfluence(gi, gj) ==
    IF geometry = "coincident" THEN 1
    ELSE IF gi = gj THEN 1
    ELSE IF gi = gj + 1 /\ gi % 2 = 1 THEN 2
    ELSE 0

(* calculate_induced_velocity(point) of a vortex: the unit-strength velocity *)
(* scaled by the vortex's current strength.  The unit-strength velocity is  *)
(* a unit downwash at the points of the vortex's own spanwise strip that    *)
(* lie less than a chord up- or downstream of, and above or below, the      *)
(* vortex's front left corner.                                              *)
InducedVelocity(vortex, point) ==
    LET is_horseshoe == "finite_leg_origin" \in DOMAIN vortex
        left == IF is_horseshoe THEN vortex.finite_leg_termination ELSE vortex.front_left_vertex
        right == IF is_horseshoe THEN vortex.finite_leg_origin ELSE vortex.front_right_vertex
    IN IF /\ left[2] <= point[2] /\ point[2] < right[2]
          /\ left[1] - 4 < point[1] /\ point[1] < left[1] + 4
          /\ left[3] - 4 < point[3] /\ point[3] < left[3] + 4
       THEN VScale(Val(vortex.strength), <<0, 0, 1>>)
       ELSE Zeros3

(* geometry.Panel and geometry.Wing as constructed: no vortices, empty wake *)
NewPanel ==
    [ring_vortex |-> None, horseshoe_vortex |-> None,
     near_field_force_geometry_axes |-> None, near_field_moment_geometry_axes |-> None]

NewWing(w) ==
    [panels |-> [c \in 0..(wing_shapes[w].num_chordwise_panels - 1) |->
                    [s \in 0..(wing_shapes[w].num_spanwise_panels - 1) |-> NewPanel]],
     wake_ring_vortex_vertices |-> EmptyGrid(wing_shapes[w].num_spanwise_panels + 1),
     wake_ring_vortices |-> EmptyGrid(wing_shapes[w].num_spanwise_panels),
     streamline_points |-> None]

NewAirplane ==
    [wings |-> [w \in 1..NumWings |-> NewWing(w)],
     total_near_field_force_wind_axes |-> None,
     total_near_field_force_coefficients_wind_axes |-> None,
     total_near_field_moment_wind_axes |-> None,
     total_near_field_moment_coefficients_wind_axes |-> None]

(* Panel.area: every panel of the model is one chord long and one chord wide *)
Area(w, c, s) == 16

(* Airplane.xyz_ref *)
XyzRef == Zeros3

(* aerodynamics.LineVortex, the legs of a ring vortex and the finite leg of a *)
(* horseshoe vortex: vector = termination - origin, center = origin + 0.5 *  *)
(* vector (on the model's integer grid)                                      *)
LineVortex(origin, termination) == [origin |-> origin, termination |-> termination]
RightLeg(ring_vortex) == LineVortex(ring_vortex.back_right_vertex, ring_vortex.front_right_vertex)
FrontLeg(ring_vortex) == LineVortex(ring_vortex.front_right_vertex, ring_vortex.front_left_vertex)
LeftLeg(ring_vortex) == LineVortex(ring_vortex.front_left_vertex, ring_vortex.back_left_vertex)
BackLeg(ring_vortex) == LineVortex(ring_vortex.back_left_vertex, ring_vortex.back_right_vertex)
FiniteLeg(horseshoe_vortex) ==
    LineVortex(horseshoe_vortex.finite_leg_origin, horseshoe_vortex.finite_leg_termination)
LegVector(leg) == VSub(leg.termination, leg.origin)
LegCenter(leg) == VDivide(VAdd(leg.origin, leg.termination), 2)

(* RingVortex.center *)
RingCenter(ring_vortex) ==
    VDivide(VAdd(VAdd(ring_vortex.front_left_vertex, ring_vortex.front_right_vertex),
                 VAdd(ring_vortex.back_left_vertex, ring_vortex.back_right_vertex)), 4)

(* OperatingPoint.calculate_rotation_matrix_wind_axes_to_geometry_axes: the   *)
(* wind axes of the model are the geometry axes turned half a turn about y   *)
RotationMatrixWindAxesToGeometryAxes == <<<<-1, 0, 0>>, <<0, 1, 0>>, <<0, 0, -1>>>>

(* OperatingPoint.calculate_dynamic_pressure: 0.5 * density * speed ** 2 *)
DynamicPressure == (Density * Dot(freestream, freestream)) \div 2

(* aerodynamics.RingVortex(...) and aerodynamics.HorseshoeVortex(...) *)
RingVortex(front_left_vertex, front_right_vertex, back_left_vertex, back_right_vertex, strength) ==
    [front_left_vertex |-> front_left_vertex, front_right_vertex |-> front_right_vertex,
     back_left_vertex |-> back_left_vertex, back_right_vertex |-> back_right_vertex,
     strength |-> strength]

HorseshoeVortex(finite_leg_origin, finite_leg_termination, strength) ==
    [finite_leg_origin |-> finite_leg_origin, finite_leg_termination |-> finite_leg_termination,
     strength |-> strength]

(* RingVortex.update_position: the four vertices are replaced, the strength kept *)
UpdatePosition(ring_vortex, front_left_vertex, front_right_vertex, back_left_vertex, back_right_vertex) ==
    [ring_vortex EXCEPT !.front_left_vertex = front_left_vertex,
                        !.front_right_vertex = front_right_vertex,
                        !.back_left_vertex = back_left_vertex,
                        !.back_right_vertex = back_right_vertex]

(* update_strength(value) *)
UpdateStrength(vortex, value) == [vortex EXCEPT !.strength = value]

-----------------------------------------------------------------------------
(* The state after the solver's constructor *)

WingShapes == [num_chordwise_panels : 1..MaxChordwise, num_spanwise_panels : 1..MaxSpanwise]

(* the airplanes tried: a main wing of any shape alone, or followed by wings *)
(* that are all copies of it or all single-panel surfaces                   *)
SinglePanel == [num_chordwise_panels |-> 1, num_spanwise_panels |-> 1]

WingShapeLists ==
    UNION {{[w \in 1..n |-> IF w = 1 THEN main ELSE other] :
                n \in 1..MaxWings, other \in {main, SinglePanel}} : main \in WingShapes}

CoefficientNames == {"CDi", "CY", "CL", "Cl", "Cm", "Cn"}

(* the runs tried: a wake mode is asked of the unsteady solvers only; a zero *)
(* reference area and run(verbose=False) are tried on one-wing airplanes,    *)
(* one of them at a time                                                     *)
TriedRun ==
    /\ keywords.prescribed_wake # None => solver \in UnsteadyKinds
    /\ (references.s_ref = 0 \/ keywords.verbose # None) => NumWings = 1
    /\ references.s_ref = 0 => keywords = [verbose |-> None, prescribed_wake |-> None]

Init ==
    /\ solver \in SolverKinds
    /\ wing_shapes \in WingShapeLists
    /\ geometry \in Geometries
    /\ freestream \in Freestreams
    /\ num_steps \in (IF solver \in UnsteadyKinds THEN {1, MaxSteps} ELSE {1})
    /\ heave \in (IF solver \in UnsteadyKinds THEN Heaves ELSE {0})
    /\ references \in References
    /\ keywords \in KeywordChoices
    /\ TriedRun
    /\ pc = "initialize_panel_vortices"
    /\ step_iter = 0
    /\ current_step = None
    /\ airplanes = [pose \in 0..(num_steps - 1) |-> NewAirplane]
    /\ current_wing_wing_influences = (IF solver \in UnsteadyKinds THEN None ELSE ZerosMatrix(NumPanels))
    /\ current_freestream_wing_influences = (IF solver \in UnsteadyKinds THEN None ELSE ZerosVector(NumPanels))
    /\ current_wake_wing_influences = None
    /\ current_vortex_strengths = (IF solver \in UnsteadyKinds THEN None ELSE ZerosVector(NumPanels))
    /\ bound_leg_strengths = None
    /\ leg_forces = None
    /\ total_near_field_force_wind_axes =
          (IF solver \in {"unsteady", "steady_horseshoe"} THEN Zeros3 ELSE None)
    /\ total_near_field_moment_wind_axes =
          (IF solver \in {"unsteady", "steady_horseshoe"} THEN Zeros3 ELSE None)
    /\ coefficients = [name \in CoefficientNames |-> None]
    /\ printed = FALSE
    /\ streamline_points = None
    /\ after_run = None
    /\ error = None

-----------------------------------------------------------------------------
(* initialize_panel_vortices *)

(* the ring vortex of panel (c, s): front leg on the quarter chord, back leg *)
(* on the next panel's quarter chord, or a quarter chord behind the panel    *)
InitialRingVortex(pose, w, c, s) ==
    LET front_left_vortex_vertex == PanelPoint(pose, w, c, s, "front_left_vortex_vertex")
        front_right_vortex_vertex == PanelPoint(pose, w, c, s, "front_right_vortex_vertex")
        back_left_vortex_vertex ==
            IF ~IsTrailingEdge(w, c)
            THEN PanelPoint(pose, w, c + 1, s, "front_left_vortex_vertex")
            ELSE VAdd(front_left_vortex_vertex,
                      VSub(PanelPoint(pose, w, c, s, "back_left_vertex"),
                           PanelPoint(pose, w, c, s, "front_left_vertex")))
        back_right_vortex_vertex ==
            IF ~IsTrailingEdge(w, c)
            THEN PanelPoint(pose, w, c + 1, s, "front_right_vortex_vertex")
            ELSE VAdd(front_right_vortex_vertex,
                      VSub(PanelPoint(pose, w, c, s, "back_right_vertex"),
                           PanelPoint(pose, w, c, s, "front_right_vertex")))
    IN RingVortex(front_left_vortex_vertex, front_right_vortex_vertex,
                  back_left_vortex_vertex, back_right_vortex_vertex, None)

(* steady ring solver: trailing-edge panels also get a horseshoe vortex whose *)
(* finite leg runs from the ring's back right to its back left vertex         *)
TrailingHorseshoeVortex(pose, w, c, s) ==
    LET ring == InitialRingVortex(pose, w, c, s)
    IN HorseshoeVortex(ring.back_right_vertex, ring.back_left_vertex, None)

(* steady horseshoe solver: one horseshoe vortex per panel on the quarter chord *)
QuarterChordHorseshoeVortex(pose, w, c, s) ==
    HorseshoeVortex(PanelPoint(pose, w, c, s, "front_right_vortex_vertex"),
                    PanelPoint(pose, w, c, s, "front_left_vortex_vertex"), None)

InitializedPanel(pose, w, c, s, panel) ==
    CASE solver \in UnsteadyKinds ->
            [panel EXCEPT !.ring_vortex = InitialRingVortex(pose, w, c, s)]
      [] solver = "steady_ring" ->
            [panel EXCEPT !.ring_vortex = InitialRingVortex(pose, w, c, s),
                          !.horseshoe_vortex =
                              IF IsTrailingEdge(w, c)
                              THEN TrailingHorseshoeVortex(pose, w, c, s) ELSE @]
      [] solver = "steady_horseshoe" ->
            [panel EXCEPT !.horseshoe_vortex = QuarterChordHorseshoeVortex(pose, w, c, s)]

(* the airplane with every panel (w, c, s) replaced by panels[<<w, c, s>>] *)
WithPanels(airplane, panels) ==
    [airplane EXCEPT !.wings =
        [w \in DOMAIN airplane.wings |->
            [airplane.wings[w] EXCEPT !.panels =
                [c \in DOMAIN airplane.wings[w].panels |->
                    [s \in DOMAIN airplane.wings[w].panels[c] |-> panels[<<w, c, s>>]]]]]]

PanelOf(airplane, id) == airplane.wings[id[1]].panels[id[2]][id[3]]

(* variant: the unsteady loop sheds the wake before it integrates the forces *)
PhaseAfterWithWakeBeforeForces(phase) ==
    CASE phase = "initialize_panel_vortices" ->
            IF solver \in UnsteadyKinds THEN "loop" ELSE "wing_wing_influences"
      [] phase = "loop" -> "wing_wing_influences"
      [] phase = "wing_wing_influences" -> "freestream_wing_influences"
      [] phase = "freestream_wing_influences" ->
            IF solver \in UnsteadyKinds THEN "wake_wing_influences" ELSE "vortex_strengths"
      [] phase = "wake_wing_influences" -> "vortex_strengths"
      [] phase = "vortex_strengths" ->
            IF solver \in UnsteadyKinds THEN "wake_vortex_vertices" ELSE "near_field_forces"
      [] phase = "wake_vortex_vertices" -> "wake_vortices"
      [] phase = "wake_vortices" -> "near_field_forces"
      [] phase = "near_field_forces" ->
            IF solver \in UnsteadyKinds /\ step_iter < num_steps THEN "loop" ELSE "streamlines"
      [] phase = "streamlines" -> "done"

(* variant: the streamlines are traced inside the loop, after each wake update *)
PhaseAfterWithStreamlinesInLoop(phase) ==
    CASE phase = "initialize_panel_vortices" ->
            IF solver \in UnsteadyKinds THEN "loop" ELSE "wing_wing_influences"
      [] phase = "loop" -> "wing_wing_influences"
      [] phase = "wing_wing_influences" -> "freestream_wing_influences"
      [] phase = "freestream_wing_influences" ->
            IF solver \in UnsteadyKinds THEN "wake_wing_influences" ELSE "vortex_strengths"
      [] phase = "wake_wing_influences" -> "vortex_strengths"
      [] phase = "vortex_strengths" -> "near_field_forces"
      [] phase = "near_field_forces" ->
            IF solver \in UnsteadyKinds THEN "wake_vortex_vertices" ELSE "streamlines"
      [] phase = "wake_vortex_vertices" -> "wake_vortices"
      [] phase = "wake_vortices" -> "streamlines"
      [] phase = "streamlines" ->
            IF solver \in UnsteadyKinds /\ step_iter < num_steps THEN "loop" ELSE "done"

(* run(): the call that follows each call, when the call returns *)
PhaseAfter(phase) ==
    CASE phase = "initialize_panel_vortices" ->
            IF solver \in UnsteadyKinds THEN "loop" ELSE "wing_wing_influences"
      [] phase = "loop" -> "wing_wing_influences"
      [] phase = "wing_wing_influences" -> "freestream_wing_influences"
      [] phase = "freestream_wing_influences" ->
            IF solver \in UnsteadyKinds THEN "wake_wing_influences" ELSE "vortex_strengths"
      [] phase = "wake_wing_influences" -> "vortex_strengths"
      [] phase = "vortex_strengths" -> "near_field_forces"
      [] phase = "near_field_forces" ->
            IF solver \in UnsteadyKinds THEN "wake_vortex_vertices" ELSE "streamlines"
      [] phase = "wake_vortex_vertices" -> "wake_vortices"
      [] phase = "wake_vortices" -> IF step_iter < num_steps THEN "loop" ELSE "streamlines"
      [] phase = "streamlines" -> "done"

(* the call of run() and its first statement.  A keyword that run() does not *)
(* have ends the call with a TypeError before the body starts.               *)
InitializePanelVortices ==
    /\ pc = "initialize_panel_vortices"
    /\ IF UnexpectedKeyword
       THEN /\ error' = Some("TypeError")
            /\ pc' = "failed"
            /\ UNCHANGED <<airplanes, printed>>
       ELSE /\ printed' = (printed \/ Prints)
            /\ airplanes' = [pose \in DOMAIN airplanes |->
                                WithPanels(airplanes[pose],
                                    [id \in PanelIds |->
                                        InitializedPanel(pose, id[1], id[2], id[3],
                                                         PanelOf(airplanes[pose], id))])]
            /\ pc' = PhaseAfter("initialize_panel_vortices")
            /\ error' = error
    /\ UNCHANGED <<config, streamline_points, step_iter, current_step, influences,
                   current_vortex_strengths,
                   force_results, after_run>>

-----------------------------------------------------------------------------
(* run(): the head of "for step in range(num_steps)" *)

BeginStep ==
    /\ pc = "loop"
    /\ printed' = (printed \/ Prints)
    /\ step_iter < num_steps
    /\ current_step' = step_iter
    /\ step_iter' = step_iter + 1
    /\ IF solver = "legacy_unsteady"
       THEN /\ current_wing_wing_influences' = ZerosMatrix(NumPanels)
            /\ current_freestream_wing_influences' = ZerosVector(NumPanels)
            /\ current_wake_wing_influences' = ZerosVector(NumPanels)
            /\ current_vortex_strengths' = ZerosVector(NumPanels)
       ELSE /\ current_wing_wing_influences' = None
            /\ current_freestream_wing_influences' = None
            /\ current_wake_wing_influences' = None
            /\ current_vortex_strengths' = None
    /\ pc' = PhaseAfter("loop")
    /\ UNCHANGED <<config, streamline_points, airplanes, force_results, after_run, error>>

(* self.current_airplane; the steady solvers' self.airplane *)
CurrentPose == IF solver \in UnsteadyKinds THEN current_step ELSE 0
CurrentAirplane == airplanes[CurrentPose]

-----------------------------------------------------------------------------
(* Where a panel's entries are stored.  The legacy solver counts the panels *)
(* across the wings (global_collocation_panel_index); the other solvers use *)
(* the panel's position inside its own wing (np.ndenumerate of the ravelled *)
(* wing, or chordwise * num_spanwise + spanwise).                           *)

EnumerateIndex(w, c, s) == RavelIndex(w, c, s)

LegacyGlobalPanelIndex(w, c, s) == PanelsBefore(w) + RavelIndex(w, c, s)

PanelIndex(w, c, s) ==
    IF solver = "legacy_unsteady" THEN LegacyGlobalPanelIndex(w, c, s) ELSE EnumerateIndex(w, c, s)

(* the first index the panels of wing w are stored at *)
IndexBase(w) == PanelIndex(w, 0, 0)

(* whether a panel of wing w is stored at index i, and which one *)
HasPanelAt(w, i) == IndexBase(w) <= i /\ i < IndexBase(w) + WingPanels(w)
PanelAt(w, i) ==
    <<w, (i - IndexBase(w)) \div wing_shapes[w].num_spanwise_panels,
         (i - IndexBase(w)) % wing_shapes[w].num_spanwise_panels>>

-----------------------------------------------------------------------------
(* calculate_wing_wing_influences / set_up_geometry *)

(* the writes of one (collocation wing, vortex wing) pair of the loop nest *)
WriteWingPair(matrix, cw, vw) ==
    [i \in DOMAIN matrix |->
        [j \in DOMAIN matrix[i] |->
            IF HasPanelAt(cw, i) /\ HasPanelAt(vw, j)
            THEN LET ci == PanelAt(cw, i)
                     vj == PanelAt(vw, j)
                 IN NormalInfluence(GlobalIndex(ci[1], ci[2], ci[3]),
                                    GlobalIndex(vj[1], vj[2], vj[3]))
            ELSE matrix[i][j]]]

RECURSIVE WriteWingPairs(_, _, _)
(* the loop nest in source order: collocation wings outside, vortex wings inside *)
WriteWingPairs(matrix, cw, vw) ==
    IF cw > NumWings THEN matrix
    ELSE IF vw > NumWings THEN WriteWingPairs(matrix, cw + 1, 1)
    ELSE WriteWingPairs(WriteWingPair(matrix, cw, vw), cw, vw + 1)

WingWingInfluences ==
    WriteWingPairs(IF solver = "unsteady" THEN ZerosMatrix(NumPanels)
                   ELSE current_wing_wing_influences, 1, 1)

CalculateWingWingInfluences ==
    /\ pc = "wing_wing_influences"
    /\ printed' = (printed \/ Prints)
    /\ current_wing_wing_influences' = WingWingInfluences
    /\ pc' = PhaseAfter("wing_wing_influences")
    /\ UNCHANGED <<config, streamline_points, step_iter, current_step, airplanes,
                   current_freestream_wing_influences, current_wake_wing_influences,
                   current_vortex_strengths, force_results, after_run, error>>

-----------------------------------------------------------------------------
(* calculate_freestream_wing_influences / set_up_operating_point *)

(* the attribute path point_name of the panel (c, s) of wing w of a pose *)
NamedPoint(pose, w, c, s, point_name) ==
    LET ring_vortex == airplanes[pose].wings[w].panels[c][s].ring_vortex IN
    CASE point_name = "ring_vortex.right_leg.center" -> LegCenter(RightLeg(ring_vortex))
      [] point_name = "ring_vortex.front_leg.center" -> LegCenter(FrontLeg(ring_vortex))
      [] point_name = "ring_vortex.left_leg.center" -> LegCenter(LeftLeg(ring_vortex))
      [] OTHER -> PanelPoint(pose, w, c, s, point_name)

(* variant: the position of the point in the pose is taken for its           *)
(* displacement since the pose before                                        *)
FlappingVelocityFromPosition(step, w, c, s, point_name) ==
    IF step < 1 THEN Zeros3
    ELSE VDivide(NamedPoint(step, w, c, s, point_name), DeltaTime)

(* variant: the name is resolved on the current pose only, the last position *)
(* being that of the panel's front left vertex                               *)
FlappingVelocityFromLastFrontLeftVertex(step, w, c, s, point_name) ==
    IF step < 1 THEN Zeros3
    ELSE VDivide(VSub(NamedPoint(step, w, c, s, point_name),
                      NamedPoint(step - 1, w, c, s, "front_left_vertex")), DeltaTime)

(* the velocity of a named point of a panel due to the motion between poses *)
FlappingVelocity(step, w, c, s, point_name) ==
    IF step < 1 THEN Zeros3
    ELSE VDivide(VSub(NamedPoint(step, w, c, s, point_name),
                      NamedPoint(step - 1, w, c, s, point_name)), DeltaTime)

FreestreamInfluence(w, c, s) ==
    IF solver \in UnsteadyKinds
    THEN Dot(VAdd(freestream, FlappingVelocity(current_step, w, c, s, "collocation_point")),
             NormalDirection(w, c, s))
    ELSE Dot(freestream, NormalDirection(w, c, s))

RECURSIVE WriteWingVector(_, _, _)
(* one write per panel, wing after wing: vector[PanelIndex] = value[w, c, s] *)
WriteWingVector(vector, w, value) ==
    IF w > NumWings THEN vector
    ELSE WriteWingVector(
            [i \in DOMAIN vector |->
                IF HasPanelAt(w, i) THEN value[PanelAt(w, i)]
                ELSE vector[i]],
            w + 1, value)

FreestreamWingInfluences ==
    WriteWingVector(IF solver = "unsteady" THEN ZerosVector(NumPanels)
                    ELSE current_freestream_wing_influences, 1,
                    [id \in PanelIds |-> FreestreamInfluence(id[1], id[2], id[3])])

CalculateFreestreamWingInfluences ==
    /\ pc = "freestream_wing_influences"
    /\ printed' = (printed \/ Prints)
    /\ current_freestream_wing_influences' = FreestreamWingInfluences
    /\ pc' = PhaseAfter("freestream_wing_influences")
    /\ UNCHANGED <<config, streamline_points, step_iter, current_step, airplanes,
                   current_wing_wing_influences,
                   current_wake_wing_influences, current_vortex_strengths,
                   force_results, after_run, error>>

-----------------------------------------------------------------------------
(* calculate_wake_wing_influences *)

RECURSIVE SumSeq(_)
SumSeq(seq) == IF seq = <<>> THEN Zeros3 ELSE VAdd(Head(seq), SumSeq(Tail(seq)))

RECURSIVE Flatten(_)
(* np.ravel of a grid's rows, as a sequence *)
Flatten(rows) ==
    IF rows = <<>> THEN <<>>
    ELSE [k \in 1..Cardinality(DOMAIN Head(rows)) |-> Head(rows)[k - 1]] \o Flatten(Tail(rows))

(* the velocities induced at point by the vortices of a sequence that are not None *)
InducedBy(vortices, point) ==
    LET present == SelectSeq(vortices, LAMBDA v : v # None)
    IN [k \in 1..Len(present) |-> InducedVelocity(present[k], point)]

RECURSIVE WakeVelocityFrom(_, _, _)
(* variant: the wake of the first wing asked for is left out *)
WakeVelocityFromLaterWings(airplane, w, point) ==
    IF w >= NumWings THEN Zeros3 ELSE WakeVelocityFrom(airplane, w + 1, point)

(* the velocity induced at point by the wake ring vortices of wings w.. *)
WakeVelocityFrom(airplane, w, point) ==
    IF w > NumWings THEN Zeros3
    ELSE VAdd(SumSeq(InducedBy(Flatten(airplane.wings[w].wake_ring_vortices.data), point)),
              WakeVelocityFrom(airplane, w + 1, point))

WakeInfluence(w, c, s) ==
    Dot(WakeVelocityFrom(CurrentAirplane, 1, PanelPoint(CurrentPose, w, c, s, "collocation_point")),
        NormalDirection(w, c, s))

WakeWingInfluences ==
    WriteWingVector(IF solver = "unsteady" THEN ZerosVector(NumPanels)
                    ELSE current_wake_wing_influences, 1,
                    [id \in PanelIds |-> WakeInfluence(id[1], id[2], id[3])])

CalculateWakeWingInfluences ==
    /\ pc = "wake_wing_influences"
    /\ printed' = (printed \/ Prints)
    /\ current_wake_wing_influences' = WakeWingInfluences
    /\ pc' = PhaseAfter("wake_wing_influences")
    /\ UNCHANGED <<config, streamline_points, step_iter, current_step, airplanes,
                   current_wing_wing_influences,
                   current_freestream_wing_influences, current_vortex_strengths,
                   force_results, after_run, error>>

-----------------------------------------------------------------------------
(* np.linalg.solve(a, b): elimination with row exchanges on the augmented    *)
(* matrix, carried out fraction-free so that it is exact on integers.  A     *)
(* zero pivot column means the matrix is singular (LinAlgError).  The panel  *)
(* geometries of this model have determinant 0, 1 or -1, so every solution   *)
(* is an integer vector and the divisions below are exact.  A row whose     *)
(* entry in the pivot column is already zero is left as it is when the      *)
(* pivot equals the previous one.  The tests "reduced = reduced" and        *)
(* "next = next" are always true: they make TLC evaluate the intermediate   *)
(* matrix once instead of once per use.                                     *)

Augmented(a, b) ==
    LET n == Cardinality(DOMAIN a)
    IN [i \in 0..(n - 1) |-> [j \in 0..n |-> IF j < n THEN a[i][j] ELSE b[i]]]

SwapRows(m, r1, r2) ==
    [i \in DOMAIN m |-> IF i = r1 THEN m[r2] ELSE IF i = r2 THEN m[r1] ELSE m[i]]

RECURSIVE Eliminate(_, _, _)
(* columns k.. of m still to eliminate; previous is the previous pivot *)
Eliminate(m, k, previous) ==
    LET n == Cardinality(DOMAIN m)
        candidates == {r \in k..(n - 1) : m[r][k] # 0}
    IN IF k = n THEN m
       ELSE IF candidates = {} THEN None
       ELSE LET r == CHOOSE r \in candidates : \A q \in candidates : r <= q
                sw == SwapRows(m, k, r)
                reduced == [i \in 0..(n - 1) |->
                              IF i <= k \/ (sw[i][k] = 0 /\ sw[k][k] = previous) THEN sw[i]
                              ELSE [j \in 0..n |->
                                      IF j <= k THEN 0
                                      ELSE (sw[i][j] * sw[k][k] - sw[i][k] * sw[k][j])
                                              \div previous]]
            IN IF reduced = reduced THEN Eliminate(reduced, k + 1, sw[k][k]) ELSE None

RECURSIVE BackSubstitute(_, _, _)
(* x[i..n-1] given x[i+1..n-1] in solved *)
BackSubstitute(m, i, solved) ==
    LET n == Cardinality(DOMAIN m)
        tail == [j \in 0..(n - 1) |-> IF j > i THEN m[i][j] * solved[j] ELSE 0]
        xi == (m[i][n] - SumTo(tail, n)) \div m[i][i]
        next == [j \in 0..(n - 1) |-> IF j = i THEN xi ELSE solved[j]]
    IN IF i < 0 THEN solved
       ELSE IF next = next THEN BackSubstitute(m, i - 1, next) ELSE None

Solve(a, b) ==
    LET n == Cardinality(DOMAIN a)
        m == Eliminate(Augmented(a, b), 0, 1)
    IN IF m = None THEN None ELSE BackSubstitute(m, n - 1, ZerosVector(n))

-----------------------------------------------------------------------------
(* calculate_vortex_strengths *)

Negate(vector) == [i \in DOMAIN vector |-> -vector[i]]
Minus(a, b) == [i \in DOMAIN a |-> a[i] - b[i]]

(* variant: the wake's influence is left out of the right-hand side *)
RightHandSideWithoutWake == Negate(current_freestream_wing_influences)

RightHandSide ==
    IF solver \in UnsteadyKinds
    THEN Minus(Negate(current_wake_wing_influences), current_freestream_wing_influences)
    ELSE Negate(current_freestream_wing_influences)

(* variant: the solved strength is added to the strength the vortex has *)
PanelWithAddedStrength(strengths, w, c, s, panel) ==
    LET value == strengths[PanelIndex(w, c, s)]
        Added(vortex) ==
            UpdateStrength(vortex, IF vortex.strength = None THEN Some(value)
                                   ELSE Some(Val(vortex.strength) + value))
    IN CASE solver = "steady_horseshoe" ->
               [panel EXCEPT !.horseshoe_vortex = Added(@)]
         [] solver = "legacy_unsteady" ->
               [panel EXCEPT !.ring_vortex = Added(@)]
         [] OTHER ->
               [panel EXCEPT !.ring_vortex = Added(@),
                             !.horseshoe_vortex = IF @ # None THEN Added(@) ELSE @]

(* variant: the ring solvers update the ring vortex only *)
PanelWithRingStrengthOnly(strengths, w, c, s, panel) ==
    LET value == Some(strengths[PanelIndex(w, c, s)]) IN
    IF solver = "steady_horseshoe"
    THEN [panel EXCEPT !.horseshoe_vortex = UpdateStrength(@, value)]
    ELSE [panel EXCEPT !.ring_vortex = UpdateStrength(@, value)]

(* the scatter of the solved strengths onto the panels *)
PanelWithStrength(strengths, w, c, s, panel) ==
    LET value == Some(strengths[PanelIndex(w, c, s)]) IN
    CASE solver = "steady_horseshoe" ->
            [panel EXCEPT !.horseshoe_vortex = UpdateStrength(@, value)]
      [] solver = "legacy_unsteady" ->
            [panel EXCEPT !.ring_vortex = UpdateStrength(@, value)]
      [] OTHER ->
            [panel EXCEPT !.ring_vortex = UpdateStrength(@, value),
                          !.horseshoe_vortex =
                              IF @ # None THEN UpdateStrength(@, value) ELSE @]

CalculateVortexStrengths ==
    /\ pc = "vortex_strengths"
    /\ printed' = (printed \/ Prints)
    /\ LET strengths == Solve(current_wing_wing_influences, RightHandSide)
       IN IF strengths = None
          THEN /\ error' = Some("LinAlgError")
               /\ pc' = "failed"
               /\ UNCHANGED <<current_vortex_strengths, airplanes>>
          ELSE /\ current_vortex_strengths' = strengths
               /\ airplanes' = [airplanes EXCEPT ![CurrentPose] =
                     WithPanels(@,
                         [id \in PanelIds |->
                             PanelWithStrength(strengths, id[1], id[2], id[3],
                                               PanelOf(CurrentAirplane, id))])]
               /\ pc' = PhaseAfter("vortex_strengths")
               /\ error' = error
    /\ UNCHANGED <<config, streamline_points, step_iter, current_step, influences, force_results, after_run>>

-----------------------------------------------------------------------------
(* calculate_solution_velocity: every bound and wake vortex plus freestream *)

(* the vortices behind panel.calculate_induced_velocity, over a wing's panels *)
PanelVortices(airplane, w) ==
    Flatten([k \in 1..Cardinality(DOMAIN airplane.wings[w].panels) |->
                [s \in DOMAIN airplane.wings[w].panels[k - 1] |->
                    airplane.wings[w].panels[k - 1][s].ring_vortex]])
    \o Flatten([k \in 1..Cardinality(DOMAIN airplane.wings[w].panels) |->
                [s \in DOMAIN airplane.wings[w].panels[k - 1] |->
                    airplane.wings[w].panels[k - 1][s].horseshoe_vortex]])

RECURSIVE VorticesFrom(_, _)
(* the bound and the wake vortices of wings w.., in the order of the loops *)
VorticesFrom(airplane, w) ==
    IF w > NumWings THEN <<>>
    ELSE SelectSeq(PanelVortices(airplane, w)
                       \o Flatten(airplane.wings[w].wake_ring_vortices.data),
                   LAMBDA v : v # None)
         \o VorticesFrom(airplane, w + 1)

RECURSIVE VelocityInducedBy(_, _, _)
(* velocity_induced_by_vortices += ..., over vortices[1..k] *)
VelocityInducedBy(vortices, k, point) ==
    IF k = 0 THEN Zeros3
    ELSE VAdd(InducedVelocity(vortices[k], point), VelocityInducedBy(vortices, k - 1, point))

(* the solution velocity at point, given the airplane's vortices *)
SolutionVelocityFrom(vortices, point) ==
    VAdd(VelocityInducedBy(vortices, Len(vortices), point), freestream)

SolutionVelocity(point) == SolutionVelocityFrom(VorticesFrom(CurrentAirplane, 1), point)

-----------------------------------------------------------------------------
(* calculate_near_field_forces_and_moments: the effective circulation of    *)
(* the right, front and left legs of each panel's ring vortex               *)

Strength(airplane, w, c, s) == Val(airplane.wings[w].panels[c][s].ring_vortex.strength)

(* variant: the right leg is the difference with the right neighbour *)
RightBoundVortexStrengthMinusNeighbour(airplane, w, c, s) ==
    IF s + 1 = wing_shapes[w].num_spanwise_panels THEN Strength(airplane, w, c, s)
    ELSE Strength(airplane, w, c, s) - Strength(airplane, w, c, s + 1)

RightBoundVortexStrength(airplane, w, c, s) ==
    IF s + 1 = wing_shapes[w].num_spanwise_panels THEN Strength(airplane, w, c, s) ELSE 0

FrontBoundVortexStrength(airplane, w, c, s) ==
    IF IsLeadingEdge(w, c) THEN Strength(airplane, w, c, s)
    ELSE Strength(airplane, w, c, s) - Strength(airplane, w, c - 1, s)

LeftBoundVortexStrength(airplane, w, c, s) ==
    IF s = 0 THEN Strength(airplane, w, c, s)
    ELSE Strength(airplane, w, c, s) - Strength(airplane, w, c, s - 1)

BoundLegStrengths(airplane) ==
    [id \in PanelIds |->
        [right |-> RightBoundVortexStrength(airplane, id[1], id[2], id[3]),
         front |-> FrontBoundVortexStrength(airplane, id[1], id[2], id[3]),
         left |-> LeftBoundVortexStrength(airplane, id[1], id[2], id[3])]]

LegNames == {"right", "front", "left"}

LegOf(ring_vortex, leg_name) ==
    CASE leg_name = "right" -> RightLeg(ring_vortex)
      [] leg_name = "front" -> FrontLeg(ring_vortex)
      [] leg_name = "left" -> LeftLeg(ring_vortex)

(* the point_name the unsteady solvers ask the flapping velocity for *)
LegPointName(leg_name) ==
    CASE leg_name = "right" -> "ring_vortex.right_leg.center"
      [] leg_name = "front" -> "ring_vortex.front_leg.center"
      [] leg_name = "left" -> "ring_vortex.left_leg.center"

(* the argument of calculate_solution_velocity for a leg: the unsteady       *)
(* solvers pass the leg's own center, the steady ring solver passes          *)
(* panel.ring_vortex.right_leg.center for all three legs                     *)
VelocityPoint(ring_vortex, leg_name) ==
    IF solver = "steady_ring" THEN LegCenter(RightLeg(ring_vortex))
    ELSE LegCenter(LegOf(ring_vortex, leg_name))

VelocityAtBoundVortexCenter(vortices, w, c, s, leg_name) ==
    LET ring_vortex == CurrentAirplane.wings[w].panels[c][s].ring_vortex
        point == VelocityPoint(ring_vortex, leg_name)
    IN IF solver \in UnsteadyKinds
       THEN VAdd(SolutionVelocityFrom(vortices, point),
                 FlappingVelocity(current_step, w, c, s, LegPointName(leg_name)))
       ELSE SolutionVelocityFrom(vortices, point)

(* density * strength * np.cross(velocity, leg.vector) *)
KuttaJoukowskiForce(strength, velocity, leg) ==
    VScale(Density * strength, Cross(velocity, LegVector(leg)))

(* one "if ..._bound_vortex_strength != 0:" block: None when it is skipped,  *)
(* otherwise where the velocity was taken, the velocity and the force        *)
BoundVortexForce(vortices, w, c, s, leg_name, strength) ==
    IF strength = 0 THEN None
    ELSE LET ring_vortex == CurrentAirplane.wings[w].panels[c][s].ring_vortex
             velocity == VelocityAtBoundVortexCenter(vortices, w, c, s, leg_name)
         IN [point |-> VelocityPoint(ring_vortex, leg_name),
             velocity |-> velocity,
             force |-> KuttaJoukowskiForce(strength, velocity, LegOf(ring_vortex, leg_name))]

(* a table, built once: the test is always true and has the table built as *)
(* a whole instead of entry by entry at each read                           *)
Table(entries) == IF entries = entries THEN entries ELSE None

LegForces(vortices, strengths) ==
    Table([id \in PanelIds |->
              [leg_name \in LegNames |->
                  BoundVortexForce(vortices, id[1], id[2], id[3], leg_name,
                                   strengths[id][leg_name])]])

ForceOf(leg_force) == IF leg_force = None THEN Zeros3 ELSE leg_force.force

(* np.cross(leg.center - xyz_ref, force) *)
MomentOf(leg, leg_force) ==
    IF leg_force = None THEN Zeros3
    ELSE Cross(VSub(LegCenter(leg), XyzRef), leg_force.force)

(* the forces and moments of the three legs of a panel, added up *)
SummedLegForces(ring_vortex, legs) ==
    [force |-> VAdd(VAdd(ForceOf(legs["right"]), ForceOf(legs["front"])), ForceOf(legs["left"])),
     moment |-> VAdd(VAdd(MomentOf(RightLeg(ring_vortex), legs["right"]),
                          MomentOf(FrontLeg(ring_vortex), legs["front"])),
                     MomentOf(LeftLeg(ring_vortex), legs["left"]))]

(* Panel.update_force_moment_and_pressure of the steady ring solver: the     *)
(* panel's force and moment are those of its ring vortex's legs              *)
UpdateForceMomentAndPressure(ring_vortex, legs) == SummedLegForces(ring_vortex, legs)

(* the step whose strengths are the last ones: the step before, or step 0    *)
(* itself                                                                    *)
LastStep == IF current_step > 0 THEN current_step - 1 ELSE current_step

(* variant: the strength of the step before is not subtracted *)
UnsteadyForceOfFullStrength(w, c, s) ==
    VScale(Density * Strength(CurrentAirplane, w, c, s) * Area(w, c, s),
           NormalDirection(w, c, s))

(* density * (strength - last strength) * area * normal *)
UnsteadyForce(w, c, s) ==
    VScale(Density
             * (Strength(CurrentAirplane, w, c, s) - Strength(airplanes[LastStep], w, c, s))
             * Area(w, c, s),
           NormalDirection(w, c, s))

(* a panel's near_field_force_geometry_axes and near_field_moment_geometry_axes *)
PanelForceAndMoment(vortices, w, c, s, legs) ==
    LET panel == CurrentAirplane.wings[w].panels[c][s] IN
    CASE solver \in UnsteadyKinds ->
            LET summed == SummedLegForces(panel.ring_vortex, legs)
                unsteady_force == UnsteadyForce(w, c, s)
            IN [force |-> VAdd(summed.force, unsteady_force),
                moment |-> VAdd(summed.moment,
                                Cross(VSub(RingCenter(panel.ring_vortex), XyzRef),
                                      unsteady_force))]
      [] solver = "steady_ring" -> UpdateForceMomentAndPressure(panel.ring_vortex, legs)
      [] solver = "steady_horseshoe" ->
            LET bound_vortex == FiniteLeg(panel.horseshoe_vortex)
                velocity == SolutionVelocityFrom(vortices, LegCenter(bound_vortex))
                force == KuttaJoukowskiForce(Val(panel.horseshoe_vortex.strength), velocity,
                                             bound_vortex)
            IN [force |-> force,
                moment |-> Cross(VSub(LegCenter(bound_vortex), XyzRef), force)]

PanelWithGlobalIndex(g) == CHOOSE id \in PanelIds : GlobalIndex(id[1], id[2], id[3]) = g

(* total_near_field_force_geometry_axes += ..., over all panels *)
TotalForce(panels) ==
    SumSeq([k \in 1..NumPanels |-> panels[PanelWithGlobalIndex(k - 1)].force])
TotalMoment(panels) ==
    SumSeq([k \in 1..NumPanels |-> panels[PanelWithGlobalIndex(k - 1)].moment])

(* np.transpose(rotation matrix) @ vector *)
WindAxes(vector) ==
    LET m == RotationMatrixWindAxesToGeometryAxes
    IN <<m[1][1] * vector[1] + m[2][1] * vector[2] + m[3][1] * vector[3],
         m[1][2] * vector[1] + m[2][2] * vector[2] + m[3][2] * vector[3],
         m[1][3] * vector[1] + m[2][3] * vector[2] + m[3][3] * vector[3]>>

(* a float as num / den; den = 0 holds numpy's inf (num = 1), -inf (num = -1) *)
(* and nan (num = 0)                                                         *)
Float(n) == [num |-> n, den |-> 1]
Sign(n) == IF n > 0 THEN 1 ELSE IF n < 0 THEN -1 ELSE 0

(* x / k on numpy floats: dividing by zero gives inf or nan and a warning,   *)
(* not an exception                                                          *)
DividedBy(x, k) ==
    IF x.den = 0 THEN [num |-> IF k < 0 THEN -x.num ELSE x.num, den |-> 0]
    ELSE IF k = 0 THEN [num |-> Sign(x.num), den |-> 0]
    ELSE [num |-> x.num * Sign(k), den |-> x.den * k * Sign(k)]

Coefficients(force, moment) ==
    LET q == DynamicPressure
        s_ref == references.s_ref
        b_ref == references.b_ref
        c_ref == references.c_ref
    IN [CDi |-> DividedBy(DividedBy(Float(-force[1]), q), s_ref),
        CY |-> DividedBy(DividedBy(Float(force[2]), q), s_ref),
        CL |-> DividedBy(DividedBy(Float(-force[3]), q), s_ref),
        Cl |-> DividedBy(DividedBy(DividedBy(Float(moment[1]), q), s_ref), b_ref),
        Cm |-> DividedBy(DividedBy(DividedBy(Float(moment[2]), q), s_ref), c_ref),
        Cn |-> DividedBy(DividedBy(DividedBy(Float(moment[3]), q), s_ref), b_ref)]

(* the solvers that keep the totals and the coefficients on themselves *)
KeepsTotals == solver \in {"unsteady", "steady_horseshoe"}

PanelForcesAndMoments(vortices, legs) ==
    Table([id \in PanelIds |->
              PanelForceAndMoment(vortices, id[1], id[2], id[3],
                                  IF solver \in RingKinds THEN legs[id] ELSE None)])

(* what the pass stores on the airplane: the panels' forces and moments, and *)
(* in the unsteady solvers the totals and the coefficient arrays             *)
AirplaneWithForces(airplane, panels) ==
    LET force == WindAxes(TotalForce(panels))
        moment == WindAxes(TotalMoment(panels))
        values == Coefficients(force, moment)
        with_panels ==
            WithPanels(airplane,
                [id \in PanelIds |->
                    [PanelOf(airplane, id) EXCEPT
                        !.near_field_force_geometry_axes = panels[id].force,
                        !.near_field_moment_geometry_axes = panels[id].moment]])
    IN IF solver \in UnsteadyKinds
       THEN [with_panels EXCEPT
                !.total_near_field_force_wind_axes = force,
                !.total_near_field_force_coefficients_wind_axes =
                    <<values.CDi, values.CY, values.CL>>,
                !.total_near_field_moment_wind_axes = moment,
                !.total_near_field_moment_coefficients_wind_axes =
                    <<values.Cl, values.Cm, values.Cn>>]
       ELSE with_panels

(* the panels' forces and moments as the airplane holds them *)
StoredPanelForces(airplane) ==
    [id \in PanelIds |->
        [force |-> PanelOf(airplane, id).near_field_force_geometry_axes,
         moment |-> PanelOf(airplane, id).near_field_moment_geometry_axes]]

CalculateNearFieldForcesAndMoments ==
    /\ pc = "near_field_forces"
    /\ printed' = (printed \/ Prints)
    /\ bound_leg_strengths' =
          IF solver \in RingKinds THEN Table(BoundLegStrengths(CurrentAirplane))
          ELSE bound_leg_strengths
    /\ leg_forces' =
          IF solver \in RingKinds
          THEN LegForces(VorticesFrom(CurrentAirplane, 1), bound_leg_strengths')
          ELSE leg_forces
    /\ airplanes' = [airplanes EXCEPT ![CurrentPose] =
          AirplaneWithForces(@, PanelForcesAndMoments(VorticesFrom(CurrentAirplane, 1),
                                                      leg_forces'))]
    /\ total_near_field_force_wind_axes' =
          IF KeepsTotals THEN WindAxes(TotalForce(StoredPanelForces(airplanes'[CurrentPose])))
          ELSE total_near_field_force_wind_axes
    /\ total_near_field_moment_wind_axes' =
          IF KeepsTotals THEN WindAxes(TotalMoment(StoredPanelForces(airplanes'[CurrentPose])))
          ELSE total_near_field_moment_wind_axes
    /\ coefficients' =
          IF KeepsTotals
          THEN Coefficients(total_near_field_force_wind_axes', total_near_field_moment_wind_axes')
          ELSE coefficients
    /\ pc' = PhaseAfter("near_field_forces")
    /\ UNCHANGED <<config, streamline_points, step_iter, current_step, influences,
                   current_vortex_strengths,
                   after_run, error>>

-----------------------------------------------------------------------------
(* populate_next_airplanes_wake_vortex_vertices *)

TrailingEdge(w) == wing_shapes[w].num_chordwise_panels - 1

(* 0.25 * velocity * delta_time *)
QuarterStep(velocity) == VDivide(VScale(DeltaTime, velocity), 4)

(* the new first row of wake vertices: the next pose's trailing edge, a      *)
(* quarter step downstream                                                   *)
AdvectedTrailingEdgeRow(w) ==
    LET ns == wing_shapes[w].num_spanwise_panels
        te == TrailingEdge(w)
    IN [j \in 0..ns |->
          IF j < ns
          THEN VAdd(PanelPoint(current_step + 1, w, te, j, "back_left_vertex"),
                    QuarterStep(VAdd(freestream,
                        FlappingVelocity(current_step, w, te, j, "back_left_vertex"))))
          ELSE VAdd(PanelPoint(current_step + 1, w, te, ns - 1, "back_right_vertex"),
                    QuarterStep(VAdd(freestream,
                        FlappingVelocity(current_step, w, te, ns - 1, "back_right_vertex"))))]

(* legacy solver: the back vertices of the next pose's trailing-edge ring vortices *)
RingVortexTrailingEdgeRow(w) ==
    LET ns == wing_shapes[w].num_spanwise_panels
        next_panels == airplanes[current_step + 1].wings[w].panels[TrailingEdge(w)]
    IN [j \in 0..ns |->
          IF j < ns THEN next_panels[j].ring_vortex.back_left_vertex
          ELSE next_panels[ns - 1].ring_vortex.back_right_vertex]

NewFirstRow(w) ==
    IF solver = "legacy_unsteady" THEN RingVortexTrailingEdgeRow(w) ELSE AdvectedTrailingEdgeRow(w)

(* the velocity that moves a wake vertex *)
VelocityAtWakeVortexVertex(vertex) ==
    IF solver = "legacy_unsteady" /\ ~prescribed_wake THEN SolutionVelocity(vertex) ELSE freestream

Convect(row) ==
    [j \in DOMAIN row |-> VAdd(row[j], VScale(DeltaTime, VelocityAtWakeVortexVertex(row[j])))]

ConvectGrid(grid) == [grid EXCEPT !.data = [k \in 1..Len(grid.data) |-> Convect(grid.data[k])]]

(* step 0: the seed rows *)
SeededVertices(w, next_wing) ==
    LET cols == wing_shapes[w].num_spanwise_panels + 1
        first == RowGrid(NewFirstRow(w), cols)
        stacked == VStack(next_wing.wake_ring_vortex_vertices, first)
    IN IF solver = "legacy_unsteady"
       THEN VStack(first, RowGrid(Convect(NewFirstRow(w)), cols))
       ELSE VStack(stacked, RowGrid(Convect(stacked.data[Len(stacked.data)]), cols))

(* variant: the vertices are convected but no new first row is stacked on them *)
GrownVerticesWithoutNewRow(w, this_wing) ==
    ConvectGrid(this_wing.wake_ring_vortex_vertices)

(* variant: the new row is stacked behind the convected vertices *)
GrownVerticesWithNewRowLast(w, this_wing) ==
    VStack(ConvectGrid(this_wing.wake_ring_vortex_vertices),
           RowGrid(NewFirstRow(w), wing_shapes[w].num_spanwise_panels + 1))

(* step k > 0: the convected copy of this pose's vertices under a new first row *)
GrownVertices(w, this_wing) ==
    VStack(RowGrid(NewFirstRow(w), wing_shapes[w].num_spanwise_panels + 1),
           ConvectGrid(this_wing.wake_ring_vortex_vertices))

(* variant: the next pose's trailing-edge ring vortices are rebuilt with      *)
(* this pose's strengths instead of being moved                              *)
RebuiltPanels(w, panels) ==
    LET ns == wing_shapes[w].num_spanwise_panels
        te == wing_shapes[w].num_chordwise_panels - 1
    IN [panels EXCEPT ![te] =
          [s \in DOMAIN panels[te] |->
              [panels[te][s] EXCEPT !.ring_vortex =
                  RingVortex(@.front_left_vertex, @.front_right_vertex,
                             @.back_left_vertex, @.back_right_vertex,
                             airplanes[current_step].wings[w].panels[te][s].ring_vortex.strength)]]]

(* variant: the next pose's trailing-edge ring vortices stay where            *)
(* initialize_panel_vortices put them                                        *)
PanelsLeftInPlace(w, panels) == panels

(* the next pose's trailing-edge ring vortices are closed on the new first row *)
RepositionedPanels(w, panels) ==
    LET row == NewFirstRow(w)
        te == TrailingEdge(w)
    IN [panels EXCEPT ![te] =
          [s \in DOMAIN panels[te] |->
              [panels[te][s] EXCEPT !.ring_vortex =
                  UpdatePosition(@, @.front_left_vertex, @.front_right_vertex,
                                 row[s], row[s + 1])]]]

NextWingWithVertices(w, this_wing, next_wing) ==
    [next_wing EXCEPT
        !.wake_ring_vortex_vertices =
            IF current_step = 0 THEN SeededVertices(w, next_wing)
            ELSE GrownVertices(w, this_wing),
        !.panels = IF solver = "legacy_unsteady" THEN @ ELSE RepositionedPanels(w, @)]

PopulateNextAirplanesWakeVortexVertices ==
    /\ pc = "wake_vortex_vertices"
    /\ printed' = (printed \/ Prints)
    /\ airplanes' =
          IF current_step < num_steps - 1
          THEN [airplanes EXCEPT ![current_step + 1].wings =
                  [w \in 1..NumWings |->
                      NextWingWithVertices(w, airplanes[current_step].wings[w], @[w])]]
          ELSE airplanes
    /\ pc' = PhaseAfter("wake_vortex_vertices")
    /\ UNCHANGED <<config, streamline_points, step_iter, current_step, influences,
                   current_vortex_strengths,
                   force_results, after_run, error>>

-----------------------------------------------------------------------------
(* populate_next_airplanes_wake_vortices *)

(* variant: the copy of this wing's wake ring vortices without a new first row *)
CopiedWakeRingVortices(this_wing, next_wing) ==
    this_wing.wake_ring_vortices

(* np.vstack((new row of empty objects, deep copy of this wing's wake ring vortices)) *)
StackedWakeRingVortices(this_wing, next_wing) ==
    LET cols == next_wing.wake_ring_vortex_vertices.shape[2] - 1
    IN VStack(RowGrid([j \in 0..(cols - 1) |-> None], cols), this_wing.wake_ring_vortices)

(* variant: every row is rebuilt with the trailing-edge panel's strength *)
RebuiltWakeRingVortexAt(w, this_wing, vertices, stacked, r, j) ==
    RingVortex(At(vertices, r, j), At(vertices, r, j + 1), At(vertices, r + 1, j),
               At(vertices, r + 1, j + 1),
               this_wing.panels[wing_shapes[w].num_chordwise_panels - 1][j].ring_vortex.strength)

(* the ring vortex at row r, column j: a new one with the trailing-edge      *)
(* panel's strength in the front row, the old one moved onto its vertices    *)
(* in the other rows                                                         *)
WakeRingVortexAt(w, this_wing, vertices, stacked, r, j) ==
    LET front_left_vertex == At(vertices, r, j)
        front_right_vertex == At(vertices, r, j + 1)
        back_left_vertex == At(vertices, r + 1, j)
        back_right_vertex == At(vertices, r + 1, j + 1)
    IN IF r = 0
       THEN RingVortex(front_left_vertex, front_right_vertex, back_left_vertex,
                       back_right_vertex,
                       this_wing.panels[TrailingEdge(w)][j].ring_vortex.strength)
       ELSE UpdatePosition(At(stacked, r, j), front_left_vertex, front_right_vertex,
                           back_left_vertex, back_right_vertex)

NextWakeRingVortices(w, this_wing, next_wing) ==
    LET vertices == next_wing.wake_ring_vortex_vertices
        stacked == StackedWakeRingVortices(this_wing, next_wing)
    IN [stacked EXCEPT !.data =
          [k \in 1..Len(stacked.data) |->
              [j \in DOMAIN stacked.data[k] |->
                  IF k < vertices.shape[1] /\ j + 1 < vertices.shape[2]
                  THEN WakeRingVortexAt(w, this_wing, vertices, stacked, k - 1, j)
                  ELSE stacked.data[k][j]]]]

(* variant: the new row is stacked on this wing's own ring vortices, which   *)
(* update_position then moves together with the next wing's                  *)
ThisWingSharingWakeRingVortices(this_wing, next_wake_ring_vortices) ==
    [this_wing EXCEPT !.wake_ring_vortices =
        [shape |-> this_wing.wake_ring_vortices.shape,
         data |-> [k \in 1..Len(this_wing.wake_ring_vortices.data) |->
                      next_wake_ring_vortices.data[k + 1]]]]

(* this wing once the next wing's wake ring vortices are in place: the next  *)
(* wing took its rows from copy.deepcopy(self.current_airplane), so that no   *)
(* update_position reaches a ring vortex of this wing                         *)
ThisWingAfterWakeVortices(this_wing, next_wake_ring_vortices) == this_wing

(* a vertex row pair without a ring vortex to move: numpy's IndexError *)
WakeRowsMissing(this_wing, next_wing) ==
    next_wing.wake_ring_vortex_vertices.shape[1] - 1 > this_wing.wake_ring_vortices.shape[1] + 1

PopulateNextAirplanesWakeVortices ==
    /\ pc = "wake_vortices"
    /\ printed' = (printed \/ Prints)
    /\ IF current_step < num_steps - 1
       THEN IF \E w \in 1..NumWings :
                  WakeRowsMissing(airplanes[current_step].wings[w],
                                  airplanes[current_step + 1].wings[w])
            THEN /\ error' = Some("IndexError")
                 /\ pc' = "failed"
                 /\ UNCHANGED airplanes
            ELSE /\ airplanes' =
                        LET next_wings ==
                               [w \in 1..NumWings |->
                                   LET next_wing == airplanes[current_step + 1].wings[w]
                                   IN [next_wing EXCEPT !.wake_ring_vortices =
                                         NextWakeRingVortices(
                                             w, airplanes[current_step].wings[w], next_wing)]]
                        IN [airplanes EXCEPT
                              ![current_step + 1].wings = next_wings,
                              ![current_step].wings =
                                  [w \in 1..NumWings |->
                                      ThisWingAfterWakeVortices(
                                          @[w], next_wings[w].wake_ring_vortices)]]
                 /\ pc' = PhaseAfter("wake_vortices")
                 /\ error' = error
       ELSE /\ pc' = PhaseAfter("wake_vortices")
            /\ UNCHANGED <<airplanes, error>>
    /\ UNCHANGED <<config, streamline_points, step_iter, current_step, influences,
                   current_vortex_strengths,
                   force_results, after_run>>

-----------------------------------------------------------------------------
(* calculate_streamlines, the last call of run() *)

(* the keyword defaults num_steps and delta_time of calculate_streamlines,   *)
(* which run() leaves alone: the horseshoe solver takes more substeps than  *)
(* the ring solvers                                                         *)
MaxSubsteps == 2
StreamlineDeltaTime == 1
StreamlineNumSteps == IF solver = "steady_horseshoe" THEN MaxSubsteps + 1 ELSE MaxSubsteps

(* the seed of the streamline behind trailing-edge panel (w, te, s) *)
SeedPoint(airplane, w, s) ==
    LET te == wing_shapes[w].num_chordwise_panels - 1 IN
    IF solver \in UnsteadyKinds
    THEN VAdd(LegCenter(BackLeg(airplane.wings[w].panels[te][s].ring_vortex)),
              QuarterStep(freestream))
    ELSE VAdd(PanelPoint(CurrentPose, w, te, s, "back_left_vertex"),
              VDivide(VSub(PanelPoint(CurrentPose, w, te, s, "back_right_vertex"),
                           PanelPoint(CurrentPose, w, te, s, "back_left_vertex")), 2))

(* variant: the streamline follows the plunging surface as well *)
NextStreamlinePointWithFlapping(vortices, last_point) ==
    VAdd(last_point,
         VScale(StreamlineDeltaTime,
                VSub(SolutionVelocityFrom(vortices, last_point), <<0, 0, heave>>)))

(* last_point + delta_time * self.calculate_solution_velocity(last_point) *)
NextStreamlinePoint(vortices, last_point) ==
    VAdd(last_point, VScale(StreamlineDeltaTime, SolutionVelocityFrom(vortices, last_point)))

RECURSIVE StreamlinePoint(_, _, _, _, _)
(* wing.streamline_points[step, s, :] *)
StreamlinePoint(airplane, vortices, w, s, step) ==
    IF step = 0 THEN SeedPoint(airplane, w, s)
    ELSE NextStreamlinePoint(vortices, StreamlinePoint(airplane, vortices, w, s, step - 1))

(* wing.streamline_points once the loops over its trailing edge are through *)
StreamlinePoints(airplane, vortices, w) ==
    [shape |-> <<StreamlineNumSteps + 1, wing_shapes[w].num_spanwise_panels>>,
     data |-> [k \in 1..(StreamlineNumSteps + 1) |->
                  [s \in 0..(wing_shapes[w].num_spanwise_panels - 1) |->
                      StreamlinePoint(airplane, vortices, w, s, k - 1)]]]

RECURSIVE HStack(_, _)
(* np.hstack of the wings' arrays 1..w onto the solver's empty array *)
HStack(wings, w) ==
    IF w = 0 THEN [shape |-> <<StreamlineNumSteps + 1, 0>>,
                   data |-> [k \in 1..(StreamlineNumSteps + 1) |-> <<>>]]
    ELSE LET stacked == HStack(wings, w - 1)
             points == wings[w].streamline_points
         IN [shape |-> <<stacked.shape[1], stacked.shape[2] + points.shape[2]>>,
             data |-> [k \in 1..stacked.shape[1] |->
                          stacked.data[k]
                          \o [j \in 1..points.shape[2] |-> points.data[k][j - 1]]]]

WithStreamlines(airplane, vortices) ==
    [airplane EXCEPT !.wings =
        [w \in 1..NumWings |->
            [airplane.wings[w] EXCEPT !.streamline_points =
                Table(StreamlinePoints(airplane, vortices, w))]]]

CalculateStreamlines ==
    /\ pc = "streamlines"
    /\ printed' = (printed \/ Prints)
    /\ airplanes' = [airplanes EXCEPT ![CurrentPose] =
                        WithStreamlines(@, VorticesFrom(CurrentAirplane, 1))]
    /\ streamline_points' = IF solver = "legacy_unsteady"
                            THEN HStack(airplanes'[CurrentPose].wings, NumWings)
                            ELSE streamline_points
    /\ pc' = PhaseAfter("streamlines")
    /\ UNCHANGED <<config, step_iter, current_step, influences,
                   current_vortex_strengths, force_results, after_run, error>>

-----------------------------------------------------------------------------
(* Calls the owner of the solver makes on it once run() has returned *)

(* what a call after run() came to *)
Outcome(call, panel, point_name, raised, returned) ==
    [call |-> call, panel |-> panel, point_name |-> point_name, raised |-> raised,
     returned |-> returned]

(* calculate_vortex_strengths called again, the influences being those of    *)
(* the run's last solve                                                      *)
CalculateVortexStrengthsAgain ==
    /\ pc = "done"
    /\ after_run = None
    /\ LET strengths == Solve(current_wing_wing_influences, RightHandSide)
       IN IF strengths = None
          THEN /\ after_run' = Outcome("calculate_vortex_strengths", None, None,
                                       Some("LinAlgError"), None)
               /\ UNCHANGED <<current_vortex_strengths, airplanes>>
          ELSE /\ current_vortex_strengths' = strengths
               /\ airplanes' = [airplanes EXCEPT ![CurrentPose] =
                     WithPanels(@,
                         [id \in PanelIds |->
                             PanelWithStrength(strengths, id[1], id[2], id[3],
                                               PanelOf(CurrentAirplane, id))])]
               /\ after_run' = Outcome("calculate_vortex_strengths", None, None, None, None)
    /\ UNCHANGED <<config, streamline_points, pc, step_iter, current_step, influences,
                   force_results, printed,
                   error>>

(* the attribute paths of a panel that lead to a point *)
PointNames ==
    {"front_left_vertex", "front_right_vertex", "back_left_vertex", "back_right_vertex",
     "front_left_vortex_vertex", "front_right_vortex_vertex", "collocation_point",
     "ring_vortex.right_leg.center", "ring_vortex.front_leg.center",
     "ring_vortex.left_leg.center"}

(* the point names the owner asks for: two that exist and a misspelled one *)
RequestedPointNames ==
    {"collocation_point", "ring_vortex.right_leg.center", "ring_vortex.right_leg.centre"}

(* calculate_flapping_velocity_on_panel of the legacy solver, called for any *)
(* panel: zeros before the name is looked at when current_step < 1, a plain  *)
(* Exception for a name that does not resolve                                *)
CalculateFlappingVelocityOnPanel ==
    /\ solver = "legacy_unsteady"
    /\ pc = "done"
    /\ after_run = None
    /\ \E id \in PanelIds, point_name \in RequestedPointNames :
          after_run' =
              IF current_step < 1
              THEN Outcome("calculate_flapping_velocity_on_panel", id, Some(point_name),
                           None, Some(Zeros3))
              ELSE IF point_name \notin PointNames
              THEN Outcome("calculate_flapping_velocity_on_panel", id, Some(point_name),
                           Some("Exception"), None)
              ELSE Outcome("calculate_flapping_velocity_on_panel", id, Some(point_name),
                           None,
                           Some(FlappingVelocity(current_step, id[1], id[2], id[3],
                                                 point_name)))
    /\ UNCHANGED <<config, streamline_points, pc, step_iter, current_step, airplanes,
                   influences,
                   current_vortex_strengths, force_results, printed, error>>

-----------------------------------------------------------------------------

Next ==
    \/ InitializePanelVortices
    \/ BeginStep
    \/ CalculateWingWingInfluences
    \/ CalculateFreestreamWingInfluences
    \/ CalculateWakeWingInfluences
    \/ CalculateVortexStrengths
    \/ CalculateNearFieldForcesAndMoments
    \/ PopulateNextAirplanesWakeVortexVertices
    \/ PopulateNextAirplanesWakeVortices
    \/ CalculateStreamlines
    \/ CalculateVortexStrengthsAgain
    \/ CalculateFlappingVelocityOnPanel

Spec == Init /\ [][Next]_vars

-----------------------------------------------------------------------------
(* A second run on the same problem *)

(* what the owner keeps of a run to compare the next one with: per pose and  *)
(* wing the shapes of the wake grids, and the solved strengths on the panels  *)
WakeShapesAndStrengths ==
    [pose \in DOMAIN airplanes |->
        [w \in 1..NumWings |->
            [vertices |-> airplanes[pose].wings[w].wake_ring_vortex_vertices.shape,
             vortices |-> airplanes[pose].wings[w].wake_ring_vortices.shape,
             strengths |-> [c \in DOMAIN airplanes[pose].wings[w].panels |->
                              [s \in DOMAIN airplanes[pose].wings[w].panels[c] |->
                                  airplanes[pose].wings[w].panels[c][s].ring_vortex.strength]]]]]

(* the owner builds a new unsteady solver on the problem of the finished run *)
(* and calls run() on it: the solver's attributes are those of __init__, the  *)
(* poses of the problem are as the first run left them                        *)
RunAgain ==
    /\ solver \in UnsteadyKinds
    /\ pc = "done"
    /\ after_run = None
    /\ after_run' = Outcome("run", None, None, None, Some(WakeShapesAndStrengths))
    /\ pc' = "initialize_panel_vortices"
    /\ step_iter' = 0
    /\ current_step' = None
    /\ current_wing_wing_influences' = None
    /\ current_freestream_wing_influences' = None
    /\ current_wake_wing_influences' = None
    /\ current_vortex_strengths' = None
    /\ bound_leg_strengths' = None
    /\ leg_forces' = None
    /\ total_near_field_force_wind_axes' = (IF solver = "unsteady" THEN Zeros3 ELSE None)
    /\ total_near_field_moment_wind_axes' = (IF solver = "unsteady" THEN Zeros3 ELSE None)
    /\ coefficients' = [name \in CoefficientNames |-> None]
    /\ streamline_points' = None
    /\ UNCHANGED <<config, airplanes, printed, error>>

NextRunAgain == Next \/ RunAgain

SpecRunAgain == Init /\ [][NextRunAgain]_vars

-----------------------------------------------------------------------------
(* Properties of the wake grids *)

(* step k of the loop has run to the end of its wake update *)
StepFinished(k) ==
    \/ step_iter > k + 1
    \/ step_iter = k + 1 /\ pc \in {"loop", "streamlines", "done"}

VertexRows(pose, w) == airplanes[pose].wings[w].wake_ring_vortex_vertices.shape[1]
VertexColumns(pose, w) == airplanes[pose].wings[w].wake_ring_vortex_vertices.shape[2]
VortexRows(pose, w) == airplanes[pose].wings[w].wake_ring_vortices.shape[1]
VortexColumns(pose, w) == airplanes[pose].wings[w].wake_ring_vortices.shape[2]

(* pose holds, for wing w, a vertex grid of rows x (ns + 1) and a ring-vortex *)
(* grid of (rows - 1) x ns, with the data the shapes announce                 *)
HoldsWakeGrids(pose, w, rows) ==
    LET wing == airplanes[pose].wings[w]
        ns == wing_shapes[w].num_spanwise_panels
    IN /\ wing.wake_ring_vortex_vertices.shape = <<rows, ns + 1>>
       /\ Len(wing.wake_ring_vortex_vertices.data) = rows
       /\ \A k \in 1..rows : DOMAIN wing.wake_ring_vortex_vertices.data[k] = 0..ns
       /\ wing.wake_ring_vortices.shape = <<rows - 1, ns>>
       /\ Len(wing.wake_ring_vortices.data) = rows - 1
       /\ \A k \in 1..(rows - 1) : DOMAIN wing.wake_ring_vortices.data[k] = 0..(ns - 1)

(* C1, as stated: after every step k up to num_steps - 1, the last one       *)
(* included, the run holds for each wing a wake-vertex grid of k + 2 rows by *)
(* ns + 1 columns and a wake-ring-vortex grid of k + 1 rows by ns columns.   *)
C1_GridsAfterEveryStep ==
    solver \in UnsteadyKinds =>
        \A k \in 0..(num_steps - 1) :
            StepFinished(k) =>
                \A w \in 1..NumWings :
                    \E pose \in 0..(num_steps - 1) : HoldsWakeGrids(pose, w, k + 2)

(* C1, amended: after step k, for 0 <= k <= num_steps - 2, pose k + 1 holds  *)
(* for each wing a wake-vertex grid of k + 2 rows by ns + 1 columns and a    *)
(* wake-ring-vortex grid of k + 1 rows by ns columns; the last step, which   *)
(* has no following pose, builds no grid.                                    *)
C1_GridsHandedToNextPose ==
    solver \in UnsteadyKinds =>
        \A k \in 0..(num_steps - 2) :
            StepFinished(k) =>
                \A w \in 1..NumWings : HoldsWakeGrids(k + 1, w, k + 2)

C1_SecondStepHandedOver ==
    /\ solver \in UnsteadyKinds
    /\ num_steps = 3
    /\ StepFinished(1)
    /\ wing_shapes[1].num_spanwise_panels = 2
    /\ VertexRows(2, 1) = 3
    /\ VortexRows(2, 1) = 2

(* C2, as stated: at every point of an unsteady run, for every wing of every *)
(* pose, the wake-vertex grid has one more row and one more column than the  *)
(* wake-ring-vortex grid.                                                    *)
C2_OneMoreRowAndColumnAlways ==
    solver \in UnsteadyKinds =>
        \A pose \in 0..(num_steps - 1) : \A w \in 1..NumWings :
            /\ VertexRows(pose, w) = VortexRows(pose, w) + 1
            /\ VertexColumns(pose, w) = VortexColumns(pose, w) + 1

(* C2, amended: the wake-vertex grid always has one more column than the     *)
(* wake-ring-vortex grid; it has one more row once the pose's wake has been  *)
(* populated (pose k + 1 after the vortex update of step k).  Between the    *)
(* vertex update and the vortex update of step k, pose k + 1 has k + 2       *)
(* vertex rows and no ring-vortex row; a pose not yet reached has no row in  *)
(* either grid.                                                              *)
C2_OneMoreRowOncePopulated ==
    solver \in UnsteadyKinds =>
        \A pose \in 0..(num_steps - 1) : \A w \in 1..NumWings :
            /\ VertexColumns(pose, w) = VortexColumns(pose, w) + 1
            /\ IF pose >= 1 /\ StepFinished(pose - 1)
               THEN VertexRows(pose, w) = VortexRows(pose, w) + 1
               ELSE IF pose >= 1 /\ step_iter = pose /\ pc = "wake_vortices"
               THEN VertexRows(pose, w) = pose + 1 /\ VortexRows(pose, w) = 0
               ELSE VertexRows(pose, w) = 0 /\ VortexRows(pose, w) = 0

C2_BetweenVertexAndVortexUpdate ==
    /\ solver \in UnsteadyKinds
    /\ num_steps = 3
    /\ step_iter = 2
    /\ pc = "wake_vortices"
    /\ VertexRows(1, 1) = 2 /\ VortexRows(1, 1) = 1
    /\ VertexRows(2, 1) = 3 /\ VortexRows(2, 1) = 0

(* C3: a wake ring vortex keeps the strength it was created with.  The       *)
(* vortex created at step s sits, in the grid built by step k (held by pose  *)
(* k + 1), at row k - s, with the strength the trailing-edge panel had at    *)
(* step s.                                                                   *)
C3_KelvinStrengthKept ==
    solver \in UnsteadyKinds =>
        \A k \in 0..(num_steps - 2) : \A s \in 0..k :
            StepFinished(k) =>
                \A w \in 1..NumWings :
                    \A j \in 0..(wing_shapes[w].num_spanwise_panels - 1) :
                        LET created_from == airplanes[s].wings[w].panels[
                                wing_shapes[w].num_chordwise_panels - 1][j].ring_vortex
                            wake_vortex == At(airplanes[k + 1].wings[w].wake_ring_vortices,
                                              k - s, j)
                        IN /\ wake_vortex # None
                           /\ wake_vortex.strength # None
                           /\ wake_vortex.strength = created_from.strength

C3_OlderRowKeptItsStrength ==
    /\ solver \in UnsteadyKinds
    /\ num_steps = 3
    /\ StepFinished(1)
    /\ At(airplanes[2].wings[1].wake_ring_vortices, 1, 0).strength
          # At(airplanes[2].wings[1].wake_ring_vortices, 0, 0).strength
    /\ At(airplanes[2].wings[1].wake_ring_vortices, 1, 0).strength
          = airplanes[0].wings[1].panels[
                wing_shapes[1].num_chordwise_panels - 1][0].ring_vortex.strength

-----------------------------------------------------------------------------
(* Properties of the order of the phases *)

UnsteadyPhases ==
    <<"wing_wing_influences", "freestream_wing_influences", "wake_wing_influences",
      "vortex_strengths", "near_field_forces", "wake_vortex_vertices", "wake_vortices">>

SteadyPhases ==
    <<"wing_wing_influences", "freestream_wing_influences", "vortex_strengths",
      "near_field_forces">>

Phases == IF solver \in UnsteadyKinds THEN UnsteadyPhases ELSE SteadyPhases

(* the position of a phase in the order, 0 for a position of run() outside it *)
PhasePosition(phase) ==
    IF \E k \in 1..Len(Phases) : Phases[k] = phase
    THEN CHOOSE k \in 1..Len(Phases) : Phases[k] = phase
    ELSE 0

PhaseChange ==
    /\ PhasePosition(pc') > 0 =>
          /\ PhasePosition(pc') = PhasePosition(pc) + 1
          /\ PhasePosition(pc') = 1 => pc \in {"initialize_panel_vortices", "loop"}
    /\ (PhasePosition(pc) > 0 /\ PhasePosition(pc') = 0) =>
          \/ PhasePosition(pc) = Len(Phases)
          \/ pc' = "failed"
    /\ pc' = "loop" => pc \in {"initialize_panel_vortices", "wake_vortices"}
    /\ step_iter' # step_iter =>
          /\ step_iter' = step_iter + 1
          /\ pc = "loop" /\ PhasePosition(pc') = 1
          /\ step_iter > 0 => StepFinished(step_iter - 1)

(* C4: within a step the phases run in the order wing-wing influences,       *)
(* freestream influences, wake influences, solve, forces, wake update; the   *)
(* steady solvers run the same order without the two wake phases.  A phase   *)
(* starts only when the one before it has ended, and step k + 1 starts only  *)
(* after the wake update of step k.                                          *)
C4_PhasesInOrder == [][pc' # pc => PhaseChange]_vars

C4_SecondStepStarted ==
    /\ solver \in UnsteadyKinds
    /\ num_steps = 3
    /\ step_iter = 2
    /\ pc = "wing_wing_influences"
    /\ VortexRows(1, 1) = 1

-----------------------------------------------------------------------------
(* Properties of the linear system *)

(* the vortex of a panel that carries the solved strength *)
SolvedVortex(pose, w, c, s) ==
    IF solver = "steady_horseshoe"
    THEN airplanes[pose].wings[w].panels[c][s].horseshoe_vortex
    ELSE airplanes[pose].wings[w].panels[c][s].ring_vortex

(* C5: the influence matrix is square of dimension num_panels, the entry for *)
(* collocation panel i and vortex panel j sits at row and column given by    *)
(* the panels' airplane-wide indices, and the freestream and wake vectors    *)
(* use the same index, for any number of wings.                              *)
C5_AirplaneWideIndices ==
    pc = "vortex_strengths" =>
        /\ DOMAIN current_wing_wing_influences = 0..(NumPanels - 1)
        /\ \A i \in PanelIds :
              LET gi == GlobalIndex(i[1], i[2], i[3])
              IN /\ DOMAIN current_wing_wing_influences[gi] = 0..(NumPanels - 1)
                 /\ \A j \in PanelIds :
                       LET gj == GlobalIndex(j[1], j[2], j[3])
                       IN current_wing_wing_influences[gi][gj] = NormalInfluence(gi, gj)
                 /\ current_freestream_wing_influences[gi]
                       = FreestreamInfluence(i[1], i[2], i[3])
                 /\ solver \in UnsteadyKinds =>
                       current_wake_wing_influences[gi] = WakeInfluence(i[1], i[2], i[3])

(* C6: once calculate_vortex_strengths has run on an airplane of regular     *)
(* geometry, with one wing or with several, every panel's vortex has the     *)
(* strength that the solution vector holds at the panel's airplane-wide      *)
(* index.                                                                    *)
C6_StrengthAtAirplaneWideIndex ==
    (geometry = "regular" /\ pc \in {"near_field_forces", "failed"}) =>
        /\ pc # "failed"
        /\ \A i \in PanelIds :
              SolvedVortex(CurrentPose, i[1], i[2], i[3]).strength
                  = Some(current_vortex_strengths[GlobalIndex(i[1], i[2], i[3])])

(* the position of run() is past the solve of the current step *)
PastSolve ==
    /\ pc \in {"near_field_forces", "wake_vortex_vertices", "wake_vortices", "loop",
               "streamlines", "done"}
    /\ current_vortex_strengths # None

(* row i of the influence matrix times the solved strengths *)
RowTimesStrengths(i) ==
    SumTo([j \in 0..(NumPanels - 1) |->
              current_wing_wing_influences[i][j] * current_vortex_strengths[j]], NumPanels)

(* C7: the solved strengths satisfy AIC x strengths = -(freestream influence *)
(* + wake influence), without the wake term in the steady solvers, and the   *)
(* solution has one entry per panel of the airplane.                         *)
C7_StrengthsSolveTheSystem ==
    PastSolve =>
        /\ DOMAIN current_vortex_strengths = 0..(NumPanels - 1)
        /\ \A i \in 0..(NumPanels - 1) :
              RowTimesStrengths(i) =
                  IF solver \in UnsteadyKinds
                  THEN -(current_freestream_wing_influences[i] + current_wake_wing_influences[i])
                  ELSE -current_freestream_wing_influences[i]

C7_SolvedAgainstAWake ==
    /\ solver = "unsteady"
    /\ pc = "near_field_forces"
    /\ step_iter = 2
    /\ \E i \in 0..(NumPanels - 1) :
          /\ current_wake_wing_influences[i] # 0
          /\ current_vortex_strengths[i] # 0

-----------------------------------------------------------------------------
(* Properties of the panels' vortices *)

(* C8: in the steady ring solver, once the strengths are solved, every       *)
(* trailing-edge panel's horseshoe vortex has the strength of the panel's    *)
(* ring vortex, and its finite leg runs from the ring's back right vertex to *)
(* the ring's back left vertex.                                              *)
C8_TrailingEdgeHorseshoeMatchesRing ==
    (solver = "steady_ring" /\ pc \in {"near_field_forces", "streamlines", "done"}) =>
        \A i \in PanelIds :
            IsTrailingEdge(i[1], i[2]) =>
                LET panel == airplanes[0].wings[i[1]].panels[i[2]][i[3]]
                IN /\ panel.horseshoe_vortex # None
                   /\ panel.ring_vortex.strength # None
                   /\ panel.horseshoe_vortex.strength = panel.ring_vortex.strength
                   /\ panel.horseshoe_vortex.finite_leg_origin
                         = panel.ring_vortex.back_right_vertex
                   /\ panel.horseshoe_vortex.finite_leg_termination
                         = panel.ring_vortex.back_left_vertex

C8_TrailingEdgeSolved ==
    /\ solver = "steady_ring"
    /\ pc = "near_field_forces"
    /\ wing_shapes[1].num_chordwise_panels = 2
    /\ airplanes[0].wings[1].panels[1][0].horseshoe_vortex.strength # Some(0)
    /\ airplanes[0].wings[1].panels[1][0].horseshoe_vortex.strength
          # airplanes[0].wings[1].panels[0][0].ring_vortex.strength

(* the solve of pose's own step has run *)
Solved(pose) ==
    \/ step_iter > pose + 1
    \/ /\ step_iter = pose + 1
       /\ pc \in {"near_field_forces", "wake_vortex_vertices", "wake_vortices", "loop",
                  "streamlines", "done"}

(* C9: after initialize_panel_vortices of an unsteady run every panel of     *)
(* every pose has one ring vortex, and the ring vortices of pose k have the  *)
(* strength None until step k itself solves; the wake update of step k - 1,  *)
(* which moves the trailing-edge ring vortices of pose k, gives them none.   *)
(* A call of run with a keyword it does not take fails before                *)
(* initialize_panel_vortices and is no case of the claim.                    *)
C9_NoStrengthBeforeOwnSolve ==
    (/\ solver \in UnsteadyKinds
     /\ pc # "initialize_panel_vortices"
     /\ error # Some("TypeError")) =>
        \A pose \in 0..(num_steps - 1) : \A i \in PanelIds :
            LET panel == airplanes[pose].wings[i[1]].panels[i[2]][i[3]]
            IN /\ panel.ring_vortex # None
               /\ panel.horseshoe_vortex = None
               /\ ~Solved(pose) => panel.ring_vortex.strength = None

C9_MovedButNotSolved ==
    /\ solver = "unsteady"
    /\ num_steps = 3
    /\ step_iter = 1
    /\ pc = "loop"
    /\ LET te == wing_shapes[1].num_chordwise_panels - 1
           ring == airplanes[1].wings[1].panels[te][0].ring_vortex
       IN /\ ring.back_left_vertex # InitialRingVortex(1, 1, te, 0).back_left_vertex
          /\ ring.back_left_vertex = At(airplanes[1].wings[1].wake_ring_vortex_vertices, 0, 0)
          /\ ring.strength = None

(* the position of run() is past the force calculation of the current step *)
PastForces ==
    /\ solver \in RingKinds
    /\ bound_leg_strengths # None
    /\ pc \in {"wake_vortex_vertices", "wake_vortices", "loop", "streamlines", "done"}

SolvedStrength(i) == Val(airplanes[CurrentPose].wings[i[1]].panels[i[2]][i[3]].ring_vortex.strength)

FrontAndLeftLegs(i) ==
    /\ bound_leg_strengths[i].front =
          IF i[2] = 0 THEN SolvedStrength(i)
          ELSE SolvedStrength(i) - SolvedStrength(<<i[1], i[2] - 1, i[3]>>)
    /\ bound_leg_strengths[i].left =
          IF i[3] = 0 THEN SolvedStrength(i)
          ELSE SolvedStrength(i) - SolvedStrength(<<i[1], i[2], i[3] - 1>>)

(* C10, as stated: the effective circulation of each of the front, left and  *)
(* right legs is the panel's strength minus the strength of the neighbour    *)
(* across that leg, or the full strength when the leg is on the wing's edge. *)
C10_EveryLegMinusNeighbour ==
    PastForces =>
        \A i \in PanelIds :
            /\ FrontAndLeftLegs(i)
            /\ bound_leg_strengths[i].right =
                  IF i[3] + 1 = wing_shapes[i[1]].num_spanwise_panels THEN SolvedStrength(i)
                  ELSE SolvedStrength(i) - SolvedStrength(<<i[1], i[2], i[3] + 1>>)

(* C10, amended: the effective circulation of the front leg and of the left  *)
(* leg is the panel's strength minus the strength of the neighbour across    *)
(* the leg, or the full strength on the leading and the left edge; the right *)
(* leg has the full strength on the right edge and zero otherwise, the leg   *)
(* it shares being counted as the right neighbour's left leg.  The back leg  *)
(* has no effective circulation.                                             *)
C10_RightLegOnlyOnRightEdge ==
    PastForces =>
        \A i \in PanelIds :
            /\ FrontAndLeftLegs(i)
            /\ bound_leg_strengths[i].right =
                  IF i[3] + 1 = wing_shapes[i[1]].num_spanwise_panels THEN SolvedStrength(i)
                  ELSE 0
            /\ DOMAIN bound_leg_strengths[i] = {"right", "front", "left"}

C10_InnerRightLeg ==
    /\ PastForces
    /\ wing_shapes[1].num_spanwise_panels = 2
    /\ SolvedStrength(<<1, 0, 0>>) # SolvedStrength(<<1, 0, 1>>)
    /\ bound_leg_strengths[<<1, 0, 0>>].right = 0
    /\ bound_leg_strengths[<<1, 0, 1>>].left # 0

-----------------------------------------------------------------------------
(* Properties of the near-field forces *)

(* the ring vortex of panel i of the pose the current step works on *)
CurrentRingVortex(i) == airplanes[CurrentPose].wings[i[1]].panels[i[2]][i[3]].ring_vortex

(* C11: in every ring-vortex solver a bound leg with nonzero effective       *)
(* circulation gets the force density x circulation x (velocity cross leg    *)
(* vector), the velocity taken at the center of that same leg; a leg with    *)
(* zero effective circulation gets no force and no velocity evaluation.      *)
C11_VelocityAtOwnLegCenter ==
    PastForces =>
        \A i \in PanelIds : \A leg_name \in LegNames :
            LET leg == LegOf(CurrentRingVortex(i), leg_name)
                strength == bound_leg_strengths[i][leg_name]
                result == leg_forces[i][leg_name]
            IN IF strength = 0 THEN result = None
               ELSE /\ result # None
                    /\ result.point = LegCenter(leg)
                    /\ result.force =
                          VScale(Density * strength, Cross(result.velocity, LegVector(leg)))

(* what the stored force of panel i holds beyond the forces of its legs *)
ForceBeyondLegs(i) ==
    VSub(PanelOf(airplanes[CurrentPose], i).near_field_force_geometry_axes,
         SummedLegForces(CurrentRingVortex(i), leg_forces[i]).force)

(* C12: in the unsteady solvers the force of a panel at step k holds, beyond *)
(* the forces of its legs, density x (strength solved at step k - strength   *)
(* of the same panel solved at step k - 1) x area x normal direction; at     *)
(* step 0 the term is zero for every panel.                                  *)
C12_AddedMassTerm ==
    (PastForces /\ solver \in UnsteadyKinds) =>
        \A i \in PanelIds :
            IF current_step = 0 THEN ForceBeyondLegs(i) = Zeros3
            ELSE ForceBeyondLegs(i) =
                    VScale(Density
                             * (SolvedStrength(i)
                                  - Strength(airplanes[current_step - 1], i[1], i[2], i[3]))
                             * Area(i[1], i[2], i[3]),
                           NormalDirection(i[1], i[2], i[3]))

C12_StrengthChangedSinceLastStep ==
    /\ PastForces
    /\ solver = "unsteady"
    /\ current_step = 1
    /\ SolvedStrength(<<1, 0, 0>>) # 0
    /\ SolvedStrength(<<1, 0, 0>>) # Strength(airplanes[0], 1, 0, 0)
    /\ ForceBeyondLegs(<<1, 0, 0>>) # Zeros3

(* neither freestream nor motion between the poses *)
StillAir == freestream = Zeros3 /\ heave = 0

(* None or the value: what a field holds before and after it is computed *)
UnsetOr(value) == {None, value}

(* C13: with zero freestream velocity and zero flapping velocity at every    *)
(* step of an unsteady run, every solved circulation is zero, every shed     *)
(* wake ring vortex has the strength zero, and every panel's force and the   *)
(* airplane's total force are zero at every step.                            *)
C13_NoSpuriousCirculation ==
    (solver \in UnsteadyKinds /\ StillAir) =>
        /\ current_vortex_strengths \in UnsetOr(ZerosVector(NumPanels))
        /\ \A pose \in 0..(num_steps - 1) :
              /\ airplanes[pose].total_near_field_force_wind_axes \in UnsetOr(Zeros3)
              /\ \A i \in PanelIds :
                    /\ PanelOf(airplanes[pose], i).ring_vortex # None =>
                          PanelOf(airplanes[pose], i).ring_vortex.strength
                              \in UnsetOr(Some(0))
                    /\ PanelOf(airplanes[pose], i).near_field_force_geometry_axes
                          \in UnsetOr(Zeros3)
              /\ \A w \in 1..NumWings :
                    LET grid == airplanes[pose].wings[w].wake_ring_vortices
                    IN \A k \in 1..Len(grid.data) : \A j \in DOMAIN grid.data[k] :
                          /\ grid.data[k][j] # None
                          /\ grid.data[k][j].strength = Some(0)
        /\ solver = "unsteady" => total_near_field_force_wind_axes = Zeros3

C13_StillAirSecondStep ==
    /\ solver \in UnsteadyKinds
    /\ StillAir
    /\ PastForces
    /\ current_step = 1
    /\ current_vortex_strengths = ZerosVector(NumPanels)
    /\ airplanes[1].total_near_field_force_wind_axes = Zeros3
    /\ airplanes[1].wings[1].wake_ring_vortices.shape[1] = 1
    /\ At(airplanes[1].wings[1].wake_ring_vortices, 0, 0).strength = Some(0)

-----------------------------------------------------------------------------
(* Properties of the calls after run() *)

(* this step is the named call made after run() *)
CalledAfterRun(call) == after_run = None /\ after_run' # None /\ after_run'.call = call

-----------------------------------------------------------------------------
(* Properties of the failures *)

(* the run ended in calculate_vortex_strengths, on a matrix without a unique *)
(* solution                                                                  *)
SingularAtSolve ==
    /\ pc = "failed"
    /\ error # Some("TypeError")
    /\ Solve(current_wing_wing_influences, RightHandSide) = None

(* C15: when the influence matrix is singular at solve time the solver       *)
(* raises GeometryDegenerateError, the run ends at that step and no panel of *)
(* the step's pose receives a strength.                                      *)
C15_SingularRaisesGeometryDegenerateError ==
    SingularAtSolve =>
        /\ error = Some("GeometryDegenerateError")
        /\ bound_leg_strengths = None
        /\ \A i \in PanelIds :
              LET panel == PanelOf(airplanes[CurrentPose], i)
              IN IF solver = "steady_horseshoe" THEN panel.horseshoe_vortex.strength = None
                 ELSE panel.ring_vortex.strength = None

(* the force pass of a solver that computes coefficients has come to them,   *)
(* the airplane's reference area being zero                                  *)
CoefficientsOfZeroReference ==
    /\ references.s_ref = 0
    /\ \/ solver = "unsteady" /\ total_near_field_force_wind_axes # Zeros3
       \/ solver = "legacy_unsteady" /\ airplanes[0].total_near_field_force_wind_axes # None
       \/ solver = "steady_horseshoe" /\ total_near_field_force_wind_axes # Zeros3

(* C16: when the airplane's reference area is zero the computation of the    *)
(* coefficients fails with ConfigurationError, and the raw total force and   *)
(* moment of the step stay stored on the solver.                             *)
C16_ZeroReferenceRaisesConfigurationError ==
    CoefficientsOfZeroReference =>
        /\ error = Some("ConfigurationError")
        /\ KeepsTotals => /\ total_near_field_force_wind_axes # None
                          /\ total_near_field_moment_wind_axes # None

(* C17: a flapping-velocity lookup whose point name does not resolve to an   *)
(* attribute path of the panel fails with InvalidPoseReferenceError and      *)
(* returns no velocity.                                                      *)
C17_UnresolvedNameRaisesInvalidPoseReferenceError ==
    (/\ after_run # None
     /\ after_run.call = "calculate_flapping_velocity_on_panel"
     /\ Val(after_run.point_name) \notin PointNames) =>
        /\ after_run.raised = Some("InvalidPoseReferenceError")
        /\ after_run.returned = None

-----------------------------------------------------------------------------
(* Properties of the parameters and the results of run() *)

(* C18: run of the unsteady solvers takes the wake mode; the second vertex   *)
(* row made at step 0 is the first row displaced by delta_time times the     *)
(* freestream velocity in prescribed mode, and times the solution velocity   *)
(* at the vertex in free mode.                                               *)
C18_WakeModeChoiceOffered ==
    solver \in UnsteadyKinds =>
        /\ keywords.prescribed_wake # None => error # Some("TypeError")
        /\ (pc = "wake_vortices" /\ current_step = 0 /\ num_steps > 1) =>
              \A w \in 1..NumWings : \A j \in 0..wing_shapes[w].num_spanwise_panels :
                  LET vertices == airplanes[1].wings[w].wake_ring_vortex_vertices
                      velocity == IF prescribed_wake THEN freestream
                                  ELSE SolutionVelocity(At(vertices, 0, j))
                  IN At(vertices, 1, j) = VAdd(At(vertices, 0, j), VScale(DeltaTime, velocity))

(* C19: once run has completed, every solver has produced the total force    *)
(* and moment in wind axes and the six coefficients: the steady solvers      *)
(* once, the unsteady solvers for the pose of every step.                    *)
C19_TotalsAndCoefficientsProduced ==
    pc = "done" =>
        IF solver \in UnsteadyKinds
        THEN \A pose \in 0..(num_steps - 1) :
                /\ airplanes[pose].total_near_field_force_wind_axes # None
                /\ airplanes[pose].total_near_field_moment_wind_axes # None
                /\ airplanes[pose].total_near_field_force_coefficients_wind_axes # None
                /\ airplanes[pose].total_near_field_moment_coefficients_wind_axes # None
        ELSE /\ total_near_field_force_wind_axes # None
             /\ total_near_field_moment_wind_axes # None
             /\ \A name \in CoefficientNames : coefficients[name] # None

(* C20: run of every solver takes the flag verbose; called with verbose =    *)
(* False it runs all of its phases, leaves the coefficients set and writes   *)
(* nothing to the console.                                                   *)
C20_QuietRunCompletes ==
    keywords.verbose = Some(FALSE) =>
        /\ error # Some("TypeError")
        /\ ~printed
        /\ pc = "done" =>
              IF solver = "legacy_unsteady"
              THEN /\ airplanes[0].total_near_field_force_coefficients_wind_axes # None
                   /\ airplanes[0].total_near_field_moment_coefficients_wind_axes # None
              ELSE \A name \in CoefficientNames : coefficients[name] # None

-----------------------------------------------------------------------------
(* Properties of the reference run *)

(* the coefficients the integration test compares with the reference values *)
ComparedCoefficients == {"CDi", "CL", "Cl", "Cm", "Cn"}

(* the run the integration test makes: the steady horseshoe solver on one    *)
(* wing in a nonzero freestream, called as run(verbose=False), has ended     *)
ReferenceRunEnded ==
    /\ solver = "steady_horseshoe"
    /\ NumWings = 1
    /\ geometry = "regular"
    /\ freestream # Zeros3
    /\ keywords.verbose = Some(FALSE)
    /\ pc \in {"done", "failed"}

(* C21: on the reference scenario the steady horseshoe solver produces CL,   *)
(* CDi, Cm, Cl and Cn close to the reference values; for that the run the    *)
(* test makes has to end with each of them a finite number.                  *)
C21_ReferenceRunProducesCoefficients ==
    ReferenceRunEnded =>
        /\ pc = "done"
        /\ \A name \in ComparedCoefficients :
              /\ coefficients[name] # None
              /\ coefficients[name].den # 0

-----------------------------------------------------------------------------
(* Properties of the wake and its influence *)

(* the wake influence at panel i, summed one wake ring vortex after the      *)
(* other over the wake grids of all wings of the current pose                *)
SummedWakeInfluence(i) ==
    LET point == PanelPoint(CurrentPose, i[1], i[2], i[3], "collocation_point")
        normal == NormalDirection(i[1], i[2], i[3])
        OfVortex(grid, r, j) ==
            IF At(grid, r, j) = None THEN 0
            ELSE Dot(InducedVelocity(At(grid, r, j), point), normal)
        OfRow(grid, r) == SumTo([j \in 0..(grid.shape[2] - 1) |-> OfVortex(grid, r, j)],
                                grid.shape[2])
        OfWing(w) ==
            LET grid == CurrentAirplane.wings[w].wake_ring_vortices
            IN SumTo([r \in 0..(grid.shape[1] - 1) |-> OfRow(grid, r)], grid.shape[1])
    IN SumTo([k \in 0..(NumWings - 1) |-> OfWing(k + 1)], NumWings)

(* the wake influences of the current step are assembled and its pose's wake *)
(* is still the one they were assembled from                                 *)
WakeInfluencesAssembled ==
    /\ solver \in UnsteadyKinds
    /\ pc \in {"vortex_strengths", "near_field_forces", "wake_vortex_vertices", "wake_vortices"}

(* C22: at step 0 of an unsteady run no wake ring vortex exists when the     *)
(* influences are assembled and the wake-influence vector is all zeros; the  *)
(* first wake ring vortices are made by the wake update of step 0, once the  *)
(* two seed vertex rows exist, each with the strength the trailing-edge      *)
(* panel of its column has from step 0's solve; at every step the wake       *)
(* influence at a panel is the sum over every wake ring vortex of every      *)
(* wing of the pose.                                                         *)
C22_WakeInfluenceSumsExistingWake ==
    solver \in UnsteadyKinds =>
        /\ ~StepFinished(0) =>
              \A pose \in 0..(num_steps - 1) : \A w \in 1..NumWings : VortexRows(pose, w) = 0
        /\ (WakeInfluencesAssembled /\ current_step = 0) =>
              current_wake_wing_influences = ZerosVector(NumPanels)
        /\ (StepFinished(0) /\ num_steps > 1) =>
              \A w \in 1..NumWings :
                  /\ VertexRows(1, w) = 2
                  /\ VortexRows(1, w) = 1
                  /\ \A j \in 0..(wing_shapes[w].num_spanwise_panels - 1) :
                        At(airplanes[1].wings[w].wake_ring_vortices, 0, j).strength
                            = airplanes[0].wings[w].panels[TrailingEdge(w)][j].ring_vortex.strength
        /\ WakeInfluencesAssembled =>
              \A i \in PanelIds :
                  current_wake_wing_influences[PanelIndex(i[1], i[2], i[3])]
                      = SummedWakeInfluence(i)

C22_SecondStepFeelsTheWake ==
    /\ WakeInfluencesAssembled
    /\ pc = "vortex_strengths"
    /\ current_step = 1
    /\ VortexRows(1, 1) = 1
    /\ At(airplanes[1].wings[1].wake_ring_vortices, 0, 0).strength # Some(0)
    /\ current_wake_wing_influences[0] # 0
    /\ current_wake_wing_influences[0] = SummedWakeInfluence(<<1, 0, 0>>)

(* the vertex update of step k has run *)
VerticesUpdated(k) == StepFinished(k) \/ (step_iter = k + 1 /\ pc = "wake_vortices")

(* the velocity that moved the wake vertices of pose k *)
ConvectionVelocity(k, vertex) ==
    IF solver = "legacy_unsteady" /\ ~prescribed_wake
    THEN SolutionVelocityFrom(VorticesFrom(airplanes[k], 1), vertex)
    ELSE freestream

(* C23: at every step k > 0 the wake update moves every wake vertex of the   *)
(* pose by delta_time times its velocity, puts the new vertex row of the     *)
(* trailing edge at row 0, so that the old row r is row r + 1 of the next    *)
(* pose, and builds the ring vortices of row 0 on the vertex rows 0 and 1    *)
(* with the strengths the trailing-edge panels have from step k's solve.     *)
C23_NewRowInFrontOfConvectedRows ==
    solver \in UnsteadyKinds =>
        \A k \in 1..(num_steps - 2) : \A w \in 1..NumWings :
            LET this == airplanes[k].wings[w].wake_ring_vortex_vertices
                next == airplanes[k + 1].wings[w].wake_ring_vortex_vertices
                trailing == airplanes[k + 1].wings[w].panels[TrailingEdge(w)]
                ns == wing_shapes[w].num_spanwise_panels
            IN /\ VerticesUpdated(k) =>
                    /\ VertexRows(k + 1, w) = VertexRows(k, w) + 1
                    /\ \A r \in 0..(VertexRows(k, w) - 1) : \A j \in 0..ns :
                          At(next, r + 1, j) =
                              VAdd(At(this, r, j),
                                   VScale(DeltaTime, ConvectionVelocity(k, At(this, r, j))))
                    /\ \A j \in 0..(ns - 1) :
                          /\ At(next, 0, j) = trailing[j].ring_vortex.back_left_vertex
                          /\ At(next, 0, j + 1) = trailing[j].ring_vortex.back_right_vertex
               /\ StepFinished(k) =>
                    \A j \in 0..(ns - 1) :
                        At(airplanes[k + 1].wings[w].wake_ring_vortices, 0, j) =
                            RingVortex(At(next, 0, j), At(next, 0, j + 1), At(next, 1, j),
                                       At(next, 1, j + 1),
                                       airplanes[k].wings[w].panels[TrailingEdge(w)][j]
                                           .ring_vortex.strength)

C23_ThirdPoseGrown ==
    /\ solver = "unsteady"
    /\ num_steps = 3
    /\ StepFinished(1)
    /\ freestream # Zeros3
    /\ VertexRows(2, 1) = 3
    /\ At(airplanes[2].wings[1].wake_ring_vortex_vertices, 1, 0)
          = VAdd(At(airplanes[1].wings[1].wake_ring_vortex_vertices, 0, 0),
                 VScale(DeltaTime, freestream))
    /\ At(airplanes[2].wings[1].wake_ring_vortex_vertices, 1, 0)
          # At(airplanes[2].wings[1].wake_ring_vortex_vertices, 0, 0)
    /\ At(airplanes[2].wings[1].wake_ring_vortices, 0, 0).strength
          = airplanes[1].wings[1].panels[TrailingEdge(1)][0].ring_vortex.strength

-----------------------------------------------------------------------------
(* Properties of the streamlines *)

(* movement.airplanes with every wing's streamline_points taken out *)
WithoutStreamlinePoints(planes) ==
    [pose \in DOMAIN planes |->
        [planes[pose] EXCEPT !.wings =
            [w \in 1..NumWings |->
                [planes[pose].wings[w] EXCEPT !.streamline_points = None]]]]

(* what the solve, the force pass and the wake update own *)
SolveState == <<config, step_iter, current_step, influences, current_vortex_strengths,
                force_results, after_run, error>>

(* every wing of the pose holds num_substeps + 1 rows of one point per      *)
(* spanwise panel, each point being the one before it moved by delta_time    *)
(* times the solution velocity there, which has no flapping term             *)
StreamlinesIntegrated(airplane) ==
    \A w \in 1..NumWings :
        LET points == airplane.wings[w].streamline_points
            vortices == VorticesFrom(airplane, 1)
        IN /\ points # None
           /\ points.shape = <<StreamlineNumSteps + 1, wing_shapes[w].num_spanwise_panels>>
           /\ Len(points.data) = StreamlineNumSteps + 1
           /\ \A k \in 1..StreamlineNumSteps :
                 \A s \in 0..(wing_shapes[w].num_spanwise_panels - 1) :
                    At(points, k, s)
                       = VAdd(At(points, k - 1, s),
                              VScale(StreamlineDeltaTime,
                                     VAdd(VelocityInducedBy(vortices, Len(vortices),
                                                            At(points, k - 1, s)),
                                          freestream)))

(* C24 as stated: calculate_streamlines changes nothing but each wing's      *)
(* streamline_points array, of num_substeps + 1 rows by num_spanwise_panels  *)
(* columns, integrated through the velocity without flapping; strengths,     *)
(* wake grids, panel forces, coefficients and every other attribute of the   *)
(* solver stay as they were.                                                 *)
C24_OnlyWingStreamlinePointsChange ==
    [][pc = "streamlines" /\ pc' # "streamlines"
         => /\ WithoutStreamlinePoints(airplanes') = WithoutStreamlinePoints(airplanes)
            /\ UNCHANGED SolveState
            /\ UNCHANGED streamline_points
            /\ StreamlinesIntegrated(airplanes'[CurrentPose])]_vars

(* C24, amended: calculate_streamlines changes only streamline data, which   *)
(* is each wing's streamline_points array (num_substeps + 1 rows by          *)
(* num_spanwise_panels columns, integrated through the velocity without      *)
(* flapping) and, in the legacy solver, the solver's own streamline_points,  *)
(* the wings' arrays side by side; every vortex strength, wake grid, panel   *)
(* force and coefficient stays as it was.                                    *)
C24_StreamlinesWithoutFeedback ==
    [][pc = "streamlines" /\ pc' # "streamlines"
         => /\ WithoutStreamlinePoints(airplanes') = WithoutStreamlinePoints(airplanes)
            /\ UNCHANGED SolveState
            /\ StreamlinesIntegrated(airplanes'[CurrentPose])
            /\ IF solver = "legacy_unsteady"
               THEN /\ streamline_points'.shape
                       = <<StreamlineNumSteps + 1,
                           SumTo([i \in 0..(NumWings - 1) |->
                                     wing_shapes[i + 1].num_spanwise_panels], NumWings)>>
                    /\ \A k \in 1..(StreamlineNumSteps + 1) :
                          streamline_points'.data[k][1]
                             = At(airplanes'[CurrentPose].wings[1].streamline_points, k - 1, 0)
               ELSE UNCHANGED streamline_points]_vars

(* a plunging legacy run ended with streamlines that the vortices bent *)
C24_StreamlinesTraced ==
    /\ pc = "done"
    /\ solver = "legacy_unsteady"
    /\ heave # 0
    /\ num_steps > 1
    /\ streamline_points # None
    /\ \E w \in 1..NumWings :
          LET points == airplanes[num_steps - 1].wings[w].streamline_points
          IN /\ points # None
             /\ At(points, StreamlineNumSteps, 0)
                   # VAdd(At(points, 0, 0),
                          VScale(StreamlineNumSteps * StreamlineDeltaTime, freestream))

-----------------------------------------------------------------------------
(* Properties of the flapping velocity *)

(* the owner asked the legacy solver for the flapping velocity of a point *)
AskedFlappingVelocity ==
    /\ after_run # None
    /\ after_run.call = "calculate_flapping_velocity_on_panel"

(* C25: the flapping velocity at a named point of a panel is the zero vector *)
(* at step 0, for every panel and every point name, and at step k >= 1 it is *)
(* the position of the point in pose k minus the position of the same point  *)
(* in pose k - 1, over delta_time, the name being resolved on both poses in  *)
(* the same way.                                                             *)
C25_FlappingVelocityFromConsecutivePoses ==
    AskedFlappingVelocity =>
        LET w == after_run.panel[1]
            c == after_run.panel[2]
            s == after_run.panel[3]
            name == Val(after_run.point_name)
            this_ring == airplanes[current_step].wings[w].panels[c][s].ring_vortex
            last_ring == airplanes[current_step - 1].wings[w].panels[c][s].ring_vortex
        IN IF current_step < 1
           THEN after_run.raised = None /\ after_run.returned = Some(Zeros3)
           ELSE /\ name = "collocation_point" =>
                      after_run.returned
                         = Some(VDivide(VSub(PanelPoint(current_step, w, c, s, name),
                                             PanelPoint(current_step - 1, w, c, s, name)),
                                        DeltaTime))
                /\ name = "ring_vortex.right_leg.center" =>
                      after_run.returned
                         = Some(VDivide(VSub(LegCenter(RightLeg(this_ring)),
                                             LegCenter(RightLeg(last_ring))),
                                        DeltaTime))

(* asked at the last step of a plunging run for a leg centre of a panel that *)
(* is not the first one, the answer being the plunge rate                     *)
C25_PlungeRateReturned ==
    /\ AskedFlappingVelocity
    /\ current_step >= 1
    /\ heave # 0
    /\ after_run.panel # <<1, 0, 0>>
    /\ after_run.point_name = Some("ring_vortex.right_leg.center")
    /\ after_run.returned = Some(<<0, 0, heave \div DeltaTime>>)

-----------------------------------------------------------------------------
(* Properties of the poses the wake update reads *)

(* the wake of a pose: per wing the vertex grid and the ring vortices *)
WakeOf(airplane) ==
    [w \in 1..NumWings |->
        <<airplane.wings[w].wake_ring_vortex_vertices, airplane.wings[w].wake_ring_vortices>>]

(* C26: the wake update of step k never changes pose k: its wake-vertex grid *)
(* and its wake ring vortices (count, vertices, strengths) are after both    *)
(* halves of the update what they were before, the ring vortices and the     *)
(* vertices of pose k + 1 being copies that can be moved on their own.       *)
C26_WakeUpdateKeepsCurrentPose ==
    [][(pc \in {"wake_vortex_vertices", "wake_vortices"} /\ pc' # pc)
         => (WakeOf(airplanes'[current_step]) = WakeOf(airplanes[current_step]))
      ]_vars

(* the copy of pose 1's first wake ring vortex sits moved in pose 2's second *)
(* row with the same strength, pose 1's own still where it was shed           *)
C26_CopyMovedOriginalKept ==
    /\ num_steps > 2
    /\ StepFinished(1)
    /\ freestream # Zeros3
    /\ LET shed == At(airplanes[1].wings[1].wake_ring_vortices, 0, 0)
           moved == At(airplanes[2].wings[1].wake_ring_vortices, 1, 0)
       IN /\ moved.strength = shed.strength
          /\ moved.front_left_vertex # shed.front_left_vertex
          /\ shed.front_left_vertex
                = At(airplanes[1].wings[1].wake_ring_vortex_vertices, 0, 0)

-----------------------------------------------------------------------------
(* Properties of the last step *)

(* the streamline points of every wing of every pose *)
AllStreamlinePoints(planes) ==
    [pose \in DOMAIN planes |->
        [w \in 1..NumWings |-> planes[pose].wings[w].streamline_points]]

(* what a step of an unsteady run does to the poses and the streamlines *)
WakeAndStreamlineWrites ==
    solver \in UnsteadyKinds =>
         /\ (pc \in {"wake_vortex_vertices", "wake_vortices"} /\ pc' # pc) =>
               /\ current_step + 1 \in DOMAIN airplanes \/ airplanes' = airplanes
               /\ \A pose \in DOMAIN airplanes :
                     pose # current_step + 1 => airplanes'[pose] = airplanes[pose]
         /\ (pc' = "streamlines" /\ pc # "streamlines") =>
               (pc = "wake_vortices" /\ current_step = num_steps - 1)
         /\ (pc = "streamlines" /\ pc' # pc) =>
               /\ pc' = "done"
               /\ \A pose \in DOMAIN airplanes :
                     \A w \in 1..NumWings :
                        (airplanes'[pose].wings[w].streamline_points # None)
                           <=> (pose = num_steps - 1)
         /\ (pc # "streamlines") =>
               (AllStreamlinePoints(airplanes') = AllStreamlinePoints(airplanes))

(* C27: at the final step (k = num_steps - 1) the wake update changes no     *)
(* wake grid and reads no pose at index num_steps; at every earlier step it  *)
(* writes pose k + 1 only.  Streamlines are computed exactly once, after the *)
(* final step, on the last pose.                                             *)
C27_LastStepShedsNothingStreamlinesOnce == [][WakeAndStreamlineWrites]_vars

(* a run of the current solver over several steps ended: the last pose has   *)
(* the wake the step before it shed and the only streamlines                  *)
C27_RunEndedOnLastPose ==
    /\ solver = "unsteady"
    /\ pc = "done"
    /\ num_steps = MaxSteps
    /\ current_step = num_steps - 1
    /\ VortexRows(num_steps - 1, 1) = num_steps - 1
    /\ airplanes[num_steps - 1].wings[1].streamline_points # None
    /\ airplanes[num_steps - 2].wings[1].streamline_points = None

-----------------------------------------------------------------------------
(* Properties of the wake sheet and the trailing edge *)

(* the wake ring vortex is closed on the four vertices around cell (r, c) *)
BuiltFromVertices(ring_vortex, vertices, r, c) ==
    /\ ring_vortex.front_left_vertex = At(vertices, r, c)
    /\ ring_vortex.front_right_vertex = At(vertices, r, c + 1)
    /\ ring_vortex.back_left_vertex = At(vertices, r + 1, c)
    /\ ring_vortex.back_right_vertex = At(vertices, r + 1, c + 1)

(* C28: after the wake update of any step k < num_steps - 1 the wake sheet   *)
(* of pose k + 1 is attached to its trailing edge: in every spanwise column  *)
(* row 0 of the pose's wake-vertex grid holds the back-left and back-right   *)
(* vertices of the ring vortex of the pose's trailing-edge panel, and wake   *)
(* ring vortex (r, c) is built from the vertex-grid entries (r, c),          *)
(* (r, c + 1), (r + 1, c) and (r + 1, c + 1).                                *)
C28_WakeAttachedToTrailingEdge ==
    solver \in UnsteadyKinds =>
        \A k \in 0..(num_steps - 2) :
            StepFinished(k) =>
                \A w \in 1..NumWings :
                    LET wing == airplanes[k + 1].wings[w]
                        vertices == wing.wake_ring_vortex_vertices
                        vortices == wing.wake_ring_vortices
                        trailing == wing.panels[TrailingEdge(w)]
                    IN /\ \A s \in DOMAIN trailing :
                             /\ At(vertices, 0, s) = trailing[s].ring_vortex.back_left_vertex
                             /\ At(vertices, 0, s + 1)
                                   = trailing[s].ring_vortex.back_right_vertex
                       /\ vortices.shape[1] = k + 1
                       /\ \A r \in 0..k :
                             \A c \in DOMAIN trailing :
                                BuiltFromVertices(At(vortices, r, c), vertices, r, c)

(* the sheet of the third pose of a two-panel-wide wing in moving air: its   *)
(* first row has left the panels' own trailing edge and the older row of     *)
(* ring vortices hangs on the rows behind it                                  *)
C28_TwoRowsBehindWideWing ==
    /\ solver \in UnsteadyKinds
    /\ num_steps > 2
    /\ StepFinished(1)
    /\ freestream # Zeros3
    /\ wing_shapes[1].num_spanwise_panels = 2
    /\ LET wing == airplanes[2].wings[1]
           te == TrailingEdge(1)
       IN /\ At(wing.wake_ring_vortex_vertices, 0, 1)
                = wing.panels[te][1].ring_vortex.back_left_vertex
          /\ At(wing.wake_ring_vortex_vertices, 0, 1)
                # PanelPoint(2, 1, te, 1, "back_left_vertex")
          /\ At(wing.wake_ring_vortices, 1, 1).back_right_vertex
                = At(wing.wake_ring_vortex_vertices, 2, 2)

-----------------------------------------------------------------------------
(* Properties of a second run *)

(* the run in progress is the second one on the problem *)
RunningAgain == after_run # None /\ after_run.call = "run"

(* step 0 of the run in progress has updated the wake vertices of pose 1 *)
SeedWritten ==
    /\ num_steps > 1
    /\ step_iter = 1
    /\ pc \in {"wake_vortices", "loop"}

(* C29: the step-0 seed leaves pose 1's wake-vertex grid with exactly two    *)
(* rows whatever the grid held before, so that a second run of a new         *)
(* unsteady solver on the same problem object completes and ends with the    *)
(* wake grid shapes and the strengths of the first run.                      *)
C29_SecondRunLikeTheFirst ==
    RunningAgain =>
        /\ error = None
        /\ SeedWritten => \A w \in 1..NumWings : VertexRows(1, w) = 2
        /\ pc = "done" => after_run.returned = Some(WakeShapesAndStrengths)

=============================================================================
